---------------------------- MODULE Spec2Model ----------------------------
(***************************************************************************)
(* Model of components/dataConnectionService/dcsNet/dcsNet.c (legato-af):  *)
(* the per-client default gateway backup stack and the le_net operations   *)
(* that act on it.                                                         *)
(*                                                                         *)
(* C strings are sequences of one-character strings (without the NUL).     *)
(* Every public operation runs to completion on the service's event thread *)
(* (one action per call); what it returned, the adapter calls it made and  *)
(* the warnings it logged stay visible until the Respond step hands the    *)
(* result to the client.  What the platform adapter (pa_dcs), the channel  *)
(* registry (le_dcs / le_dcsTech) and the file system answer is an input   *)
(* of the call, drawn from the small sets below.                           *)
(***************************************************************************)
EXTENDS Integers, Sequences, FiniteSets

(***************************************************************************)
(* Bounds of the model.                                                    *)
(***************************************************************************)
\* Client sessions besides the internal client le_data (session reference 0).
NumClients == 2

(***************************************************************************)
(* Values.                                                                 *)
(***************************************************************************)
\* le_msg_SessionRef_t: 0 is the nil reference, which stands for le_data.
SessionRefs == 0..NumClients

EmptyStr == << >>

\* Default gateway addresses and interfaces the system may have at backup time.
Gw4a == <<"9", ".", "1">>
Gw6a == <<"f", ":", "1">>
IntfE == <<"e", "0">>
IntfU == <<"u", "0">>

\* What pa_dcs_GetDefaultGateway() may write into the zeroed backup structure:
\* nothing for a family without default gateway, else its address and interface.
\* The adapter fills the address and interface fields only.
MkBackup(v4gw, v4if, v6gw, v6if) ==
    [defaultV4GW |-> v4gw, defaultV4Interface |-> v4if,
     defaultV6GW |-> v6gw, defaultV6Interface |-> v6if,
     setV4GwToSystem |-> FALSE, setV6GwToSystem |-> FALSE]

SystemGwReports ==
    { MkBackup(Gw4a, IntfE, Gw6a, IntfE),
      MkBackup(Gw4a, IntfU, EmptyStr, EmptyStr) }

(***************************************************************************)
(* C library and liblegato string helpers.                                 *)
(***************************************************************************)
Min(a, b) == IF a < b THEN a ELSE b

Take(s, n) == SubSeq(s, 1, Min(Len(s), n))

\* strncmp(a, b, n) == 0
StrnEq(a, b, n) == Take(a, n) = Take(b, n)

\* le_utf8_Copy(dest, src, destSize, NULL): at most destSize - 1 bytes are copied.
Utf8Copy(src, destSize) ==
    IF Len(src) < destSize
    THEN [result |-> "LE_OK", str |-> src]
    ELSE [result |-> "LE_OVERFLOW", str |-> Take(src, destSize - 1)]

\* Buffer sizes of pa_dcs.h used by this file.
PA_DCS_IPV4_ADDR_MAX_BYTES == 16
PA_DCS_IPV6_ADDR_MAX_BYTES == 46
PA_DCS_INTERFACE_NAME_MAX_BYTES == 20

\* The number of elements COMPONENT_INIT gives DcsDefaultGwConfigDataDbPool, the
\* greatest number of client apps; it is smaller here than the number of
\* sessions.
LE_DCS_CLIENT_APPS_MAX == 2

(***************************************************************************)
(* The gateway backup stack: DcsDefaultGwConfigDbList, head first.  A list *)
(* element is a DcsDefaultGwConfigDb_t, given by its backupConfig; its     *)
(* dbLink is its position in the sequence.  An object is named by its      *)
(* position (0 is NULL).                                                   *)
(***************************************************************************)
RemoveAt(list, i) ==
    [j \in 1..(Len(list) - 1) |-> IF j < i THEN list[j] ELSE list[j + 1]]

\* le_dls_Remove() that leaves the link on the list.
DlsRemove_Keep(list, i) == list

\* le_dls_Remove(&list, link) for a link that is on no list: the list framework
\* is not part of the component; the removal is taken to leave the list as it
\* is, which is what the destructor is documented to rely on.
DlsRemoveUnlinked(list) == list

\* le_dls_Remove(&list, link)
DlsRemove(list, i) ==
    IF i \in 1..Len(list) THEN RemoveAt(list, i) ELSE DlsRemoveUnlinked(list)

\* A stacking that queues the element at the tail.
DlsStack_Tail(list, db) == list \o <<db>>

\* le_dls_Stack(&list, link)
DlsStack(list, db) == <<db>> \o list

\* The first element whose session reference matches, and whether it is the head.
GetDefaultGwConfigDb(list, appSessionRef) ==
    LET matches == {i \in 1..Len(list) : list[i].appSessionRef = appSessionRef}
        first == IF matches = {} THEN 0
                 ELSE CHOOSE i \in matches : \A j \in matches : i <= j
    IN  [dbPtr |-> first, isRecent |-> (first = 1)]

\* A re-evaluation that sets the flag whenever address and interface match.
ReinsertFlag_Match(archGw, archIntf, newGw, newIntf, gwBytes, newFlag) ==
    StrnEq(archGw, newGw, gwBytes)
    /\ StrnEq(archIntf, newIntf, PA_DCS_INTERFACE_NAME_MAX_BYTES)

\* The re-evaluation of an archived flag on re-insertion (lines 237-249).
ReinsertFlag(archGw, archIntf, newGw, newIntf, gwBytes, newFlag) ==
    IF StrnEq(archGw, newGw, gwBytes)
       /\ StrnEq(archIntf, newIntf, PA_DCS_INTERFACE_NAME_MAX_BYTES)
    THEN newFlag
    ELSE FALSE

InsertDefaultGwBackupDb(list, appSessionRef, backupData) ==
    LET got == GetDefaultGwConfigDb(list, appSessionRef)
        found == got.dbPtr # 0
        \* le_mem_ForceAlloc + memset + appSessionRef, or the element found
        archived == IF found THEN list[got.dbPtr]
                    ELSE [appSessionRef |-> appSessionRef,
                          defaultV4GW |-> EmptyStr, defaultV4Interface |-> EmptyStr,
                          defaultV6GW |-> EmptyStr, defaultV6Interface |-> EmptyStr,
                          setV4GwToSystem |-> FALSE, setV6GwToSystem |-> FALSE]
        rest == IF found THEN DlsRemove(list, got.dbPtr) ELSE list
        set4 == IF found
                THEN ReinsertFlag(archived.defaultV4GW, archived.defaultV4Interface,
                                  backupData.defaultV4GW, backupData.defaultV4Interface,
                                  PA_DCS_IPV4_ADDR_MAX_BYTES, backupData.setV4GwToSystem)
                ELSE FALSE
        set6 == IF found
                THEN ReinsertFlag(archived.defaultV6GW, archived.defaultV6Interface,
                                  backupData.defaultV6GW, backupData.defaultV6Interface,
                                  PA_DCS_IPV6_ADDR_MAX_BYTES, backupData.setV6GwToSystem)
                ELSE FALSE
        updated ==
            [appSessionRef |-> archived.appSessionRef,
             setV4GwToSystem |-> set4,
             setV6GwToSystem |-> set6,
             defaultV4GW |->
                 Utf8Copy(backupData.defaultV4GW, PA_DCS_IPV4_ADDR_MAX_BYTES).str,
             defaultV4Interface |->
                 Utf8Copy(backupData.defaultV4Interface,
                          PA_DCS_INTERFACE_NAME_MAX_BYTES).str,
             defaultV6GW |->
                 Utf8Copy(backupData.defaultV6GW, PA_DCS_IPV6_ADDR_MAX_BYTES).str,
             defaultV6Interface |->
                 Utf8Copy(backupData.defaultV6Interface,
                          PA_DCS_INTERFACE_NAME_MAX_BYTES).str]
    IN  DlsStack(rest, updated)

\* A destructor that unlinks the head of the list, whatever object is released.
DcsDefaultGwConfigDbDestructor_Head(list, objPtr) ==
    IF list = << >> THEN list ELSE Tail(list)

\* A destructor that unlinks nothing.
DcsDefaultGwConfigDbDestructor_Keep(list, objPtr) == list

\* The pool's destructor, run by le_mem_Release() on the last reference.
DcsDefaultGwConfigDbDestructor(list, objPtr) ==
    IF objPtr = 0 THEN list ELSE DlsRemove(list, objPtr)

(***************************************************************************)
(* The DHCP lease file reader.  A lease file is what the adapter and the   *)
(* file system answer for an interface: the result of                      *)
(* pa_dcs_GetDhcpLeaseFilePath(), the result of le_flock_TryOpenStream()   *)
(* (LE_OK when the stream is opened), the bytes of the file, and the bytes *)
(* the automatic array line[] holds before the first fgets().              *)
(***************************************************************************)
NUL == "NUL"

DEFAULT_GW_OPTION == <<"r", "o", "u", "t", "e", "r", "s">>
DNS_ADDRESS_OPTION ==
    <<"d", "o", "m", "a", "i", "n", "-", "n", "a", "m", "e", "-",
      "s", "e", "r", "v", "e", "r", "s">>

DHCP_LEASE_OPTION_MAX_LEN_BYTES == 50
MAX_NUM_DEFAULT_GATEWAY_ADDRESS_BY_TYPE == 1
MAX_NUM_DNS_ADDRESS_BY_TYPE == 2

LEASE_FILE_MAX_LINE_LENGTH_BYTES ==
    DHCP_LEASE_OPTION_MAX_LEN_BYTES
    + (MAX_NUM_DNS_ADDRESS_BY_TYPE * PA_DCS_IPV6_ADDR_MAX_BYTES)
    + (MAX_NUM_DNS_ADDRESS_BY_TYPE * PA_DCS_IPV4_ADDR_MAX_BYTES)

\* The index of the first element of s equal to c at or after from; 0 if none.
IndexFrom(s, c, from) ==
    LET hits == {i \in from..Len(s) : s[i] = c}
    IN  IF hits = {} THEN 0 ELSE CHOOSE i \in hits : \A j \in hits : i <= j

\* strstr(hay, needle): the index of the first occurrence, 0 for NULL.
StrStr(hay, needle) ==
    LET k == Len(needle)
        hits == {p \in 1..(Len(hay) - k + 1) : SubSeq(hay, p, p + k - 1) = needle}
    IN  IF hits = {} THEN 0 ELSE CHOOSE p \in hits : \A q \in hits : p <= q

\* The C string that starts at offset off (1-based) of the byte array buf: the
\* bytes up to the first NUL at or after off.  The arrays of this model always
\* end in a NUL.
CStringAt(buf, off) ==
    LET end == IndexFrom(buf, NUL, off)
    IN  IF off > Len(buf) \/ end = 0 THEN EmptyStr ELSE SubSeq(buf, off, end - 1)

\* fgets(line, size, file) until end of file: the successive strings read.  Each
\* holds at most size - 1 bytes and ends after the first newline.
RECURSIVE FgetsAll(_, _)
FgetsAll(bytes, size) ==
    IF bytes = << >> THEN << >>
    ELSE LET nl == IndexFrom(bytes, "\n", 1)
             cut == IF nl # 0 /\ nl <= size - 1 THEN nl ELSE Min(Len(bytes), size - 1)
         IN  <<SubSeq(bytes, 1, cut)>> \o FgetsAll(SubSeq(bytes, cut + 1, Len(bytes)), size)

\* line[] after fgets() stored str and its terminator; the bytes behind stay.
FgetsStore(line, str) ==
    [i \in 1..Len(line) |->
        IF i <= Len(str) THEN str[i] ELSE IF i = Len(str) + 1 THEN NUL ELSE line[i]]

\* The while loop of lines 384-404: the source string handed to le_utf8_Copy()
\* for the first string read that contains searchStr, or found = FALSE.
RECURSIVE SearchLeaseLines(_, _, _)
SearchLeaseLines(reads, line, searchStr) ==
    IF reads = << >> THEN [found |-> FALSE, src |-> EmptyStr]
    ELSE LET stored == FgetsStore(line, Head(reads))
             searchPtr == StrStr(Head(reads), searchStr)
         IN  IF searchPtr # 0
             THEN [found |-> TRUE,
                   src |-> CStringAt(stored, searchPtr + Len(searchStr) + 1)]
             ELSE SearchLeaseLines(Tail(reads), stored, searchStr)

\* Lines 395-400: cut the copied value at its first semicolon.
RemoveSemicolon(dest) ==
    LET semicolonPtr == IndexFrom(dest, ";", 1)
    IN  IF semicolonPtr # 0 THEN SubSeq(dest, 1, semicolonPtr - 1) ELSE dest

GetDhcpLeaseFileEntry(lease, infoType, destSizeBytes) ==
    IF lease.pathResult # "LE_OK" THEN [result |-> "LE_FAULT", dest |-> EmptyStr]
    ELSE IF infoType \notin {"LE_NET_DNS_SERVER_ADDRESS", "LE_NET_DEFAULT_GATEWAY_ADDRESS"}
    THEN [result |-> "LE_FAULT", dest |-> EmptyStr]
    ELSE IF lease.openResult # "LE_OK" THEN [result |-> lease.openResult, dest |-> EmptyStr]
    ELSE LET searchStr ==
                 Utf8Copy(IF infoType = "LE_NET_DNS_SERVER_ADDRESS"
                          THEN DNS_ADDRESS_OPTION ELSE DEFAULT_GW_OPTION,
                          DHCP_LEASE_OPTION_MAX_LEN_BYTES).str
             hit == SearchLeaseLines(
                        FgetsAll(lease.bytes, LEASE_FILE_MAX_LINE_LENGTH_BYTES),
                        lease.line, searchStr)
             copied == Utf8Copy(hit.src, destSizeBytes)
         IN  IF hit.found
             THEN [result |-> copied.result, dest |-> RemoveSemicolon(copied.str)]
             \* the result of the successful open is returned
             ELSE [result |-> lease.openResult, dest |-> EmptyStr]

\* strtok_r(rest, " ", &rest) until NULL: the maximal runs of non-space bytes.
RECURSIVE Tokens(_)
Tokens(str) ==
    IF str = << >> THEN << >>
    ELSE IF Head(str) = " " THEN Tokens(Tail(str))
    ELSE LET sp == IndexFrom(str, " ", 1)
             end == IF sp = 0 THEN Len(str) ELSE sp - 1
         IN  <<SubSeq(str, 1, end)>> \o Tokens(SubSeq(str, end + 1, Len(str)))

\* A loop that counts the addresses of both families together.
RECURSIVE FillAddresses_Shared(_, _, _, _, _, _)
FillAddresses_Shared(tokens, v4, v6, v4AddrSize, v6AddrSize, numAddresses) ==
    IF tokens = << >> THEN [v4 |-> v4, v6 |-> v6]
    ELSE LET token == Head(tokens)
             isIpv6 == IndexFrom(token, ":", 1) # 0
             room == Len(v4) + Len(v6) < numAddresses
         IN  FillAddresses_Shared(
                 Tail(tokens),
                 IF ~isIpv6 /\ room THEN Append(v4, Take(token, v4AddrSize)) ELSE v4,
                 IF isIpv6 /\ room THEN Append(v6, Take(token, v6AddrSize)) ELSE v6,
                 v4AddrSize, v6AddrSize, numAddresses)

\* The loop of lines 468-489 over the tokens: the slots filled so far.
RECURSIVE FillAddresses(_, _, _, _, _, _)
FillAddresses(tokens, v4, v6, v4AddrSize, v6AddrSize, numAddresses) ==
    IF tokens = << >> THEN [v4 |-> v4, v6 |-> v6]
    ELSE LET token == Head(tokens)
             isIpv6 == IndexFrom(token, ":", 1) # 0
         IN  IF ~isIpv6 /\ Len(v4) < numAddresses
             THEN FillAddresses(Tail(tokens), Append(v4, Take(token, v4AddrSize)), v6,
                                v4AddrSize, v6AddrSize, numAddresses)
             ELSE IF isIpv6 /\ Len(v6) < numAddresses
             THEN FillAddresses(Tail(tokens), v4, Append(v6, Take(token, v6AddrSize)),
                                v4AddrSize, v6AddrSize, numAddresses)
             ELSE FillAddresses(Tail(tokens), v4, v6, v4AddrSize, v6AddrSize, numAddresses)

\* The slots not filled stay zeroed.
PadSlots(filled, numAddresses) ==
    [i \in 1..numAddresses |-> IF i <= Len(filled) THEN filled[i] ELSE EmptyStr]

\* Lines 464-492: the entry read is parsed if it was read, and its result returned.
ParseLeaseEntry(entry, v4AddrSize, v6AddrSize, numAddresses) ==
    LET filled == IF entry.result = "LE_OK"
                  THEN FillAddresses(Tokens(entry.dest), << >>, << >>,
                                     v4AddrSize, v6AddrSize, numAddresses)
                  ELSE [v4 |-> << >>, v6 |-> << >>]
    IN  [result |-> entry.result,
         v4 |-> PadSlots(filled.v4, numAddresses),
         v6 |-> PadSlots(filled.v6, numAddresses)]

GetLeaseAddresses(lease, infoType, v4AddrSize, v6AddrSize, numAddresses) ==
    IF numAddresses > MAX_NUM_DNS_ADDRESS_BY_TYPE
    THEN [result |-> "LE_FAULT", v4 |-> << >>, v6 |-> << >>]
    ELSE ParseLeaseEntry(
             GetDhcpLeaseFileEntry(
                 lease, infoType,
                 MAX_NUM_DNS_ADDRESS_BY_TYPE
                 * (PA_DCS_IPV4_ADDR_MAX_BYTES + PA_DCS_IPV6_ADDR_MAX_BYTES + 1)),
             v4AddrSize, v6AddrSize, numAddresses)

(***************************************************************************)
(* The channels of the registry and what the environment answers.          *)
(***************************************************************************)
\* le_dcs_Technology_t in declaration order.
TechOrdinal ==
    [LE_DCS_TECH_UNKNOWN |-> 0, LE_DCS_TECH_WIFI |-> 1, LE_DCS_TECH_CELLULAR |-> 2,
     LE_DCS_TECH_ETHERNET |-> 3, LE_DCS_TECH_MAX |-> 4]

NoChannelDb == [technology |-> "none"]

IntfR == <<"r", "0">>
IntfW == <<"w", "0">>

\* le_dcs_GetChannelDbFromRef(): the registry knows four channels.
le_dcs_GetChannelDbFromRef(channelRef) ==
    CASE channelRef = "chUnknown" ->
             [technology |-> "LE_DCS_TECH_UNKNOWN", interface |-> IntfW]
      [] channelRef = "chMax" ->
             [technology |-> "LE_DCS_TECH_MAX", interface |-> IntfW]
      [] channelRef = "chCell" ->
             [technology |-> "LE_DCS_TECH_CELLULAR", interface |-> IntfR]
      [] channelRef = "chWifi" ->
             [technology |-> "LE_DCS_TECH_WIFI", interface |-> IntfW]
      [] OTHER -> NoChannelDb

ChannelRefs == {"chStale", "chUnknown", "chMax", "chCell", "chWifi"}

\* A test that lets LE_DCS_TECH_MAX through.
TechUnsupported_UnknownOnly(technology) ==
    TechOrdinal.LE_DCS_TECH_UNKNOWN = TechOrdinal[technology]

\* The test of lines 664-665.
TechUnsupported(technology) ==
    \/ TechOrdinal.LE_DCS_TECH_UNKNOWN = TechOrdinal[technology]
    \/ TechOrdinal.LE_DCS_TECH_MAX <= TechOrdinal[technology]

\* Gateway addresses a channel may have been given.
Ch4 == <<"7", ".", "1">>
Ch6 == <<"c", ":", "1">>

\* DNS server addresses a channel may have been given, and a token of a lease
\* file that fills a whole IPv4 slot.
Dns4a == <<"8", ".", "8">>
Dns4b == <<"9", ".", "9">>
Dns6a == <<"d", ":", "8">>
Long4 == <<"1", "0", "0", ".", "1", "0", "0", ".", "1", "0", "0", ".",
           "1", "0", "0", "0">>

PaResults == {"LE_OK", "LE_FAULT"}

\* line[] zeroed.
ZeroLine == [i \in 1..LEASE_FILE_MAX_LINE_LENGTH_BYTES |-> NUL]

MkLease(pathResult, openResult, bytes) ==
    [pathResult |-> pathResult, openResult |-> openResult, bytes |-> bytes,
     line |-> ZeroLine]

\* The lease files an interface may have, by name: no path, no file, no routers
\* option, an IPv4 router, an IPv6 and an IPv4 router.
LeaseFile(name) ==
    CASE name = "noPath" -> MkLease("LE_FAULT", "LE_OK", << >>)
      [] name = "noFile" -> MkLease("LE_OK", "LE_NOT_FOUND", << >>)
      [] name = "noRouters" ->
             MkLease("LE_OK", "LE_OK", <<"i", "p", " ", "7", ".", "9", ";", "\n">>)
      [] name = "v4Router" ->
             MkLease("LE_OK", "LE_OK",
                     <<"x", ";", "\n">> \o DEFAULT_GW_OPTION \o <<" ">> \o Ch4
                     \o <<";", "\n">>)
      [] name = "v6v4Routers" ->
             MkLease("LE_OK", "LE_OK",
                     DEFAULT_GW_OPTION \o <<" ">> \o Ch6 \o <<" ">> \o Ch4
                     \o <<";", "\n">>)
      \* Lease files with the domain-name-servers option: two IPv4 servers, an
      \* IPv6 and an IPv4 server, a first token as long as an IPv4 slot, two
      \* such tokens.
      [] name = "v4Dns" ->
             MkLease("LE_OK", "LE_OK",
                     DNS_ADDRESS_OPTION \o <<" ">> \o Dns4a \o <<" ">> \o Dns4b
                     \o <<";", "\n">>)
      [] name = "v6v4Dns" ->
             MkLease("LE_OK", "LE_OK",
                     DNS_ADDRESS_OPTION \o <<" ">> \o Dns6a \o <<" ">> \o Dns4a
                     \o <<";", "\n">>)
      [] name = "longV4Dns" ->
             MkLease("LE_OK", "LE_OK",
                     DNS_ADDRESS_OPTION \o <<" ">> \o Long4 \o <<" ">> \o Dns4b
                     \o <<";", "\n">>)
      [] name = "twoLongV4Dns" ->
             MkLease("LE_OK", "LE_OK",
                     DNS_ADDRESS_OPTION \o <<" ">> \o Long4 \o <<" ">> \o Long4
                     \o <<";", "\n">>)

LeaseNames == {"noPath", "noFile", "noRouters", "v4Router", "v6v4Routers"}

\* GetLeaseAddresses() for the default gateway of each of these files.
LeaseGwAddresses ==
    [name \in LeaseNames |->
        GetLeaseAddresses(LeaseFile(name), "LE_NET_DEFAULT_GATEWAY_ADDRESS",
                          PA_DCS_IPV4_ADDR_MAX_BYTES, PA_DCS_IPV6_ADDR_MAX_BYTES,
                          MAX_NUM_DEFAULT_GATEWAY_ADDRESS_BY_TYPE)]

\* What the environment answers during one le_net_SetDefaultGW() call: the
\* result of le_dcsTech_GetNetInterface(), the result and the addresses of
\* le_dcsTech_GetDefaultGWAddress(), the lease file of the interface (its name),
\* the results of pa_dcs_SetDefaultGateway() for IPv6 and for IPv4.
MkEnv(intfResult, techResult, techV4, techV6, lease, v6PaResult, v4PaResult) ==
    [intfResult |-> intfResult, techResult |-> techResult, techV4 |-> techV4,
     techV6 |-> techV6, lease |-> lease, v6PaResult |-> v6PaResult,
     v4PaResult |-> v4PaResult]

\* The results pa_dcs_SetDefaultGateway() may give for an address: it is not
\* called for an empty one.
PaResultsFor(gwAddr) == IF Len(gwAddr) > 0 THEN PaResults ELSE {"LE_FAULT"}

\* The answers that matter for a channel: a channel that is not resolved or not
\* supported asks nothing, a cellular channel never reads a lease file and another
\* one never asks its technology for addresses.
SetDefaultGwEnvs(channelRef) ==
    LET technology == le_dcs_GetChannelDbFromRef(channelRef).technology
        quiet == MkEnv("LE_FAULT", "LE_FAULT", EmptyStr, EmptyStr, "noPath",
                       "LE_FAULT", "LE_FAULT")
    IN  IF technology = "none" \/ TechUnsupported(technology) THEN {quiet}
        ELSE IF technology = "LE_DCS_TECH_CELLULAR"
        THEN {quiet}
             \cup {MkEnv("LE_OK", "LE_FAULT", Ch4, Ch6, "noPath", "LE_FAULT", "LE_FAULT")}
             \cup UNION {{MkEnv("LE_OK", "LE_OK", v4, v6, "noPath", r6, r4) :
                             r6 \in PaResultsFor(v6), r4 \in PaResultsFor(v4)} :
                         v4 \in {EmptyStr, Ch4}, v6 \in {EmptyStr, Ch6}}
        ELSE {quiet}
             \cup UNION {{MkEnv("LE_OK", "LE_FAULT", EmptyStr, EmptyStr, lease, r6, r4) :
                             r6 \in PaResultsFor(LeaseGwAddresses[lease].v6[1]),
                             r4 \in PaResultsFor(LeaseGwAddresses[lease].v4[1])} :
                         lease \in LeaseNames}

(***************************************************************************)
(* State.                                                                  *)
(***************************************************************************)
VARIABLES
    DcsDefaultGwConfigDbList,  \* the stack of backups, head first
    call,                      \* the last le_net call: its name and session
    result,                    \* what it returned ("void" for a void function)
    paCalls,                   \* the pa_dcs_SetDefaultGateway calls it made, in order
    warned,                    \* the LE_WARN messages it logged
    \* What each session did so far, as the claims' premises need it:
    lastBackupOrSet,           \* its latest call among backup and set: none, backup, set
    setSucceeded,              \* per family: the adapter call of a set by the session,
                               \* made while it held a backup, returned LE_OK and the
                               \* session has called neither backup nor restore since
    v4SetThenBackup,           \* setSucceeded held for IPv4, then the session called
                               \* backup and has called neither set nor restore since
    backedUp,                  \* what its latest backup archived, none once it restored
    backupOrder,               \* the sessions that backed up and have not restored
                               \* since, the one whose latest backup is newest first
    destructed,                \* the runs of the pool's destructor during the last
                               \* le_net call: whose backup, and whether it was linked
    systemGw,                  \* the default gateway of the system per family, where
                               \* the adapter is one that keeps what it was last given;
                               \* NoSystem where the adapter's answers are left open
    DnsBackup,                 \* the DNS addresses last installed, per family
    netCalls,                  \* the other adapter calls the last le_net call made:
                               \* pa_dcs_SetDnsNameServers, pa_dcs_ChangeRoute,
                               \* pa_dcs_RestoreInitialDnsNameServers, in order
    queried,                   \* what the address query of the last le_net call
                               \* answered, NoQuery if it asked none
    dnsInstalled,              \* per family, the two addresses of the latest
                               \* pa_dcs_SetDnsNameServers call that returned LE_OK,
                               \* empty ones if there was none
    addrOut                    \* the structure the last le_net get call was given:
                               \* NoAddr, Untouched or what the call wrote

\* The state of the DNS and route functions.
netVars == <<DnsBackup, netCalls, dnsInstalled, addrOut>>

vars == <<DcsDefaultGwConfigDbList, call, result, paCalls, warned,
          lastBackupOrSet, setSucceeded, v4SetThenBackup, backedUp, backupOrder,
          destructed, systemGw, DnsBackup, netCalls, queried, dnsInstalled, addrOut>>

NoQuery == [result |-> "none"]

\* No output structure, and one the call has not written.
NoAddr == [written |-> "none"]
Untouched == [written |-> "no"]

\* static pa_dcs_DnsBackup_t DnsBackup: zeroed.
NoDns == <<EmptyStr, EmptyStr>>

NoBackup == [defaultV4GW |-> "none"]

\* The four archived fields of a backup structure.
Archived(cfg) ==
    [defaultV4GW |-> cfg.defaultV4GW, defaultV4Interface |-> cfg.defaultV4Interface,
     defaultV6GW |-> cfg.defaultV6GW, defaultV6Interface |-> cfg.defaultV6Interface]

PaSetCall(interface, gatewayAddr, isIpv6, ret) ==
    [interface |-> interface, gatewayAddr |-> gatewayAddr, isIpv6 |-> isIpv6, ret |-> ret]

\* The event loop waits for the next request.
Idle == [api |-> "idle", sessionRef |-> 0]

\* No record of the system's default gateways is kept.
NoSystem == [tracked |-> FALSE]

\* pa_dcs_SetDefaultGateway() of an adapter that programs what it is given: the
\* default gateway of each family after the calls, which is that of the call
\* for the family that returned LE_OK, if there is one.
PaProgram(system, calls) ==
    LET programmed(isIpv6, old) ==
            LET ok == {i \in 1..Len(calls) :
                          calls[i].isIpv6 = isIpv6 /\ calls[i].ret = "LE_OK"}
                last == CHOOSE i \in ok : \A j \in ok : j <= i
            IN  IF ok = {} THEN old
                ELSE [gw |-> calls[last].gatewayAddr, intf |-> calls[last].interface]
    IN  IF ~system.tracked THEN system
        ELSE [tracked |-> TRUE, v4 |-> programmed(FALSE, system.v4),
              v6 |-> programmed(TRUE, system.v6)]

\* pa_dcs_GetDefaultGateway() of that adapter: the gateways last programmed.
PaReport(system) == MkBackup(system.v4.gw, system.v4.intf, system.v6.gw, system.v6.intf)

\* COMPONENT_INIT
Constructed ==
    /\ DcsDefaultGwConfigDbList = << >>
    /\ call = Idle
    /\ result = "void"
    /\ paCalls = << >>
    /\ warned = {}
    /\ lastBackupOrSet = [s \in SessionRefs |-> "none"]
    /\ setSucceeded = [s \in SessionRefs |-> [v4 |-> FALSE, v6 |-> FALSE]]
    /\ v4SetThenBackup = [s \in SessionRefs |-> FALSE]
    /\ backedUp = [s \in SessionRefs |-> NoBackup]
    /\ backupOrder = << >>
    /\ destructed = << >>
    /\ DnsBackup = [newDnsIPv4 |-> NoDns, newDnsIPv6 |-> NoDns]
    /\ netCalls = << >>
    /\ queried = NoQuery
    /\ dnsInstalled = [v4 |-> NoDns, v6 |-> NoDns]
    /\ addrOut = NoAddr

\* The component starts; the adapter's answers are left open.
Init == Constructed /\ systemGw = NoSystem

le_net_BackupDefaultGW(sessionRef, defGwConfigBackup) ==
    /\ call = Idle
    /\ DcsDefaultGwConfigDbList' =
           InsertDefaultGwBackupDb(DcsDefaultGwConfigDbList, sessionRef, defGwConfigBackup)
    /\ call' = [api |-> "le_net_BackupDefaultGW", sessionRef |-> sessionRef]
    /\ result' = "void"
    /\ paCalls' = << >>
    /\ warned' = {}
    /\ lastBackupOrSet' = [lastBackupOrSet EXCEPT ![sessionRef] = "backup"]
    /\ setSucceeded' = [setSucceeded EXCEPT ![sessionRef] = [v4 |-> FALSE, v6 |-> FALSE]]
    /\ v4SetThenBackup' = [v4SetThenBackup EXCEPT
                               ![sessionRef] = @ \/ setSucceeded[sessionRef].v4]
    /\ backedUp' = [backedUp EXCEPT ![sessionRef] = Archived(defGwConfigBackup)]
    /\ backupOrder' = <<sessionRef>> \o SelectSeq(backupOrder, LAMBDA s : s # sessionRef)
    /\ destructed' = << >>
    /\ queried' = NoQuery
    /\ UNCHANGED <<systemGw, netVars>>

\* A restore that reports LE_OK only when both families are fine.
RestoreResult_Both(v4Result, v6Result) ==
    IF (v4Result = "LE_OK") /\ (v6Result = "LE_OK") THEN "LE_OK" ELSE "LE_FAULT"

\* Lines 619-624: the result of a restore from the results of the two families.
RestoreResult(v4Result, v6Result) ==
    IF (v4Result = "LE_OK") \/ (v6Result = "LE_OK") THEN "LE_OK" ELSE "LE_FAULT"

\* Lines 584-625 for the backup found: the adapter calls, the release, the result.
RestoreFound(list, dbPtr, v4PaResult, v6PaResult) ==
    LET defGwConfigBackup == list[dbPtr]
        v4Result == IF defGwConfigBackup.setV4GwToSystem THEN v4PaResult ELSE "LE_OK"
        v6Result == IF defGwConfigBackup.setV6GwToSystem THEN v6PaResult ELSE "LE_OK"
        v4Calls == IF defGwConfigBackup.setV4GwToSystem
                   THEN <<PaSetCall(defGwConfigBackup.defaultV4Interface,
                                    defGwConfigBackup.defaultV4GW, FALSE, v4PaResult)>>
                   ELSE << >>
        v6Calls == IF defGwConfigBackup.setV6GwToSystem
                   THEN <<PaSetCall(defGwConfigBackup.defaultV6Interface,
                                    defGwConfigBackup.defaultV6GW, TRUE, v6PaResult)>>
                   ELSE << >>
    IN  [list |-> DcsDefaultGwConfigDbDestructor(list, dbPtr),   \* le_mem_Release
         destructed |-> <<[appSessionRef |-> defGwConfigBackup.appSessionRef,
                           linked |-> dbPtr \in 1..Len(list)]>>,
         paCalls |-> v4Calls \o v6Calls,
         result |-> RestoreResult(v4Result, v6Result)]

le_net_RestoreDefaultGW(sessionRef, v4PaResult, v6PaResult) ==
    LET got == GetDefaultGwConfigDb(DcsDefaultGwConfigDbList, sessionRef)
        done == RestoreFound(DcsDefaultGwConfigDbList, got.dbPtr, v4PaResult, v6PaResult)
    IN  /\ call = Idle
        /\ call' = [api |-> "le_net_RestoreDefaultGW", sessionRef |-> sessionRef]
        /\ IF got.dbPtr = 0
           THEN /\ result' = "LE_NOT_FOUND"
                /\ paCalls' = << >>
                /\ warned' = {}
                /\ destructed' = << >>
                /\ UNCHANGED DcsDefaultGwConfigDbList
           ELSE /\ result' = done.result
                /\ paCalls' = done.paCalls
                /\ warned' = IF got.isRecent THEN {} ELSE {"not in reversed order"}
                /\ DcsDefaultGwConfigDbList' = done.list
                /\ destructed' = done.destructed
        /\ setSucceeded' = [setSucceeded EXCEPT
                                ![sessionRef] = [v4 |-> FALSE, v6 |-> FALSE]]
        /\ v4SetThenBackup' = [v4SetThenBackup EXCEPT ![sessionRef] = FALSE]
        /\ backedUp' = [backedUp EXCEPT ![sessionRef] = NoBackup]
        /\ backupOrder' = SelectSeq(backupOrder, LAMBDA s : s # sessionRef)
        /\ systemGw' = PaProgram(systemGw, paCalls')
        /\ queried' = NoQuery
        /\ UNCHANGED lastBackupOrSet
        /\ UNCHANGED netVars

\* v4GwAddr and v6GwAddr as GetLeaseAddresses() leaves them.
LeaseGwAnswer(got) ==
    [result |-> got.result,
     v4GwAddr |-> IF got.result = "LE_OK" THEN got.v4[1] ELSE EmptyStr,
     v6GwAddr |-> IF got.result = "LE_OK" THEN got.v6[1] ELSE EmptyStr]

\* A query that reads the lease file whatever the technology.
GetGwAddresses_Lease(channelDb, env) == LeaseGwAnswer(LeaseGwAddresses[env.lease])

\* Lines 688-699: where the gateway addresses of the channel come from.
GetGwAddresses(channelDb, env) ==
    IF channelDb.technology = "LE_DCS_TECH_CELLULAR"
    THEN [result |-> env.techResult, v4GwAddr |-> env.techV4, v6GwAddr |-> env.techV6]
    ELSE LeaseGwAnswer(LeaseGwAddresses[env.lease])

\* A set that never marks the backup.
MarkSet_Skip(list, dbPtr, isIpv6) == list

\* A set that marks the backup at the head of the stack.
MarkSet_Head(list, dbPtr, isIpv6) ==
    IF isIpv6 THEN [list EXCEPT ![1].setV6GwToSystem = TRUE]
    ELSE [list EXCEPT ![1].setV4GwToSystem = TRUE]

\* Lines 737 and 753: the flag of the session's backup is set.
MarkSet(list, dbPtr, isIpv6) ==
    IF isIpv6 THEN [list EXCEPT ![dbPtr].setV6GwToSystem = TRUE]
    ELSE [list EXCEPT ![dbPtr].setV4GwToSystem = TRUE]

\* A set that reports LE_OK only when both families are set.
SetResult_Both(v4Ret, v6Ret) ==
    IF (v4Ret = "LE_OK") /\ (v6Ret = "LE_OK") THEN "LE_OK" ELSE "LE_FAULT"

\* Lines 757-763: the result of a set from the results of the two families.
SetResult(v4Ret, v6Ret) ==
    IF (v4Ret = "LE_OK") \/ (v6Ret = "LE_OK") THEN "LE_OK" ELSE "LE_FAULT"

\* Lines 715-764: the addresses are known and at least one is not empty.
SetGateways(list, sessionRef, intf, v4GwAddr, v6GwAddr, env) ==
    LET got == GetDefaultGwConfigDb(list, sessionRef)
        try6 == Len(v6GwAddr) > 0
        try4 == Len(v4GwAddr) > 0
        v6Ret == IF try6 THEN env.v6PaResult ELSE "LE_FAULT"
        v4Ret == IF try4 THEN env.v4PaResult ELSE "LE_FAULT"
        list6 == IF try6 /\ v6Ret = "LE_OK" /\ got.dbPtr # 0
                 THEN MarkSet(list, got.dbPtr, TRUE) ELSE list
        list4 == IF try4 /\ v4Ret = "LE_OK" /\ got.dbPtr # 0
                 THEN MarkSet(list6, got.dbPtr, FALSE) ELSE list6
    IN  [result |-> SetResult(v4Ret, v6Ret),
         list |-> list4,
         paCalls |-> (IF try6 THEN <<PaSetCall(intf, v6GwAddr, TRUE, v6Ret)>> ELSE << >>)
                     \o (IF try4 THEN <<PaSetCall(intf, v4GwAddr, FALSE, v4Ret)>>
                         ELSE << >>),
         warned |-> (IF got.dbPtr = 0 THEN {"not backed up"} ELSE {})
                    \cup (IF got.isRecent THEN {} ELSE {"newer backup"})]

\* A return of le_net_SetDefaultGW() before any adapter call.
EarlyReturn(list, res) ==
    [result |-> res, list |-> list, paCalls |-> << >>, warned |-> {}]

\* Lines 701-764: the address query has answered.
SetQueried(list, sessionRef, intf, addr, env) ==
    IF addr.result # "LE_OK" THEN EarlyReturn(list, addr.result)
    ELSE IF Len(addr.v6GwAddr) = 0 /\ Len(addr.v4GwAddr) = 0
    THEN EarlyReturn(list, "LE_FAULT")
    ELSE SetGateways(list, sessionRef, intf, addr.v4GwAddr, addr.v6GwAddr, env)

\* le_net_SetDefaultGW() as a function of the stack and of the environment.
SetDefaultGW(list, sessionRef, channelRef, env) ==
    LET channelDb == le_dcs_GetChannelDbFromRef(channelRef)
    IN  IF channelDb = NoChannelDb THEN EarlyReturn(list, "LE_FAULT")
        ELSE IF TechUnsupported(channelDb.technology)
        THEN EarlyReturn(list, "LE_UNSUPPORTED")
        ELSE IF env.intfResult # "LE_OK" THEN EarlyReturn(list, "LE_FAULT")
        ELSE SetQueried(list, sessionRef, channelDb.interface,
                        GetGwAddresses(channelDb, env), env)

\* Whether the adapter call for a family was made and returned LE_OK.
PaSetOk(calls, isIpv6) ==
    \E i \in 1..Len(calls) : calls[i].isIpv6 = isIpv6 /\ calls[i].ret = "LE_OK"

\* le_net_SetDefaultGW() returns done to the session.
SetReturns(sessionRef, done, held) ==
    /\ call' = [api |-> "le_net_SetDefaultGW", sessionRef |-> sessionRef]
    /\ result' = done.result
    /\ paCalls' = done.paCalls
    /\ warned' = done.warned
    /\ DcsDefaultGwConfigDbList' = done.list
    /\ lastBackupOrSet' = [lastBackupOrSet EXCEPT ![sessionRef] = "set"]
    /\ setSucceeded' = [setSucceeded EXCEPT
           ![sessionRef] = [v4 |-> @.v4 \/ (held /\ PaSetOk(done.paCalls, FALSE)),
                            v6 |-> @.v6 \/ (held /\ PaSetOk(done.paCalls, TRUE))]]
    /\ v4SetThenBackup' = [v4SetThenBackup EXCEPT ![sessionRef] = FALSE]
    /\ destructed' = << >>
    /\ systemGw' = PaProgram(systemGw, done.paCalls)
    /\ UNCHANGED <<backedUp, backupOrder>>

\* What the address query of line 688-699 answered, if the call came to it.
GwQueried(channelRef, env) ==
    LET channelDb == le_dcs_GetChannelDbFromRef(channelRef)
    IN  IF channelDb = NoChannelDb THEN NoQuery
        ELSE IF TechUnsupported(channelDb.technology) THEN NoQuery
        ELSE IF env.intfResult # "LE_OK" THEN NoQuery
        ELSE GetGwAddresses(channelDb, env)

le_net_SetDefaultGW(sessionRef, channelRef, env) ==
    /\ call = Idle
    /\ SetReturns(sessionRef,
                  SetDefaultGW(DcsDefaultGwConfigDbList, sessionRef, channelRef, env),
                  GetDefaultGwConfigDb(DcsDefaultGwConfigDbList, sessionRef).dbPtr # 0)
    /\ queried' = GwQueried(channelRef, env)
    /\ UNCHANGED netVars

\* The results pa_dcs_SetDefaultGateway() may give during a restore by the
\* session: it is called for a family whose flag is set.
RestoreResults(sessionRef, isIpv6) ==
    IF \E i \in 1..Len(DcsDefaultGwConfigDbList) :
           /\ DcsDefaultGwConfigDbList[i].appSessionRef = sessionRef
           /\ IF isIpv6 THEN DcsDefaultGwConfigDbList[i].setV6GwToSystem
              ELSE DcsDefaultGwConfigDbList[i].setV4GwToSystem
    THEN PaResults
    ELSE {"LE_FAULT"}

\* The function returned: its result goes to the client and the event loop takes
\* the next request.
Respond ==
    /\ call # Idle
    /\ call' = Idle
    /\ result' = "void"
    /\ paCalls' = << >>
    /\ warned' = {}
    /\ netCalls' = << >>
    /\ queried' = NoQuery
    /\ addrOut' = NoAddr
    /\ destructed' = << >>
    /\ UNCHANGED <<DcsDefaultGwConfigDbList, lastBackupOrSet, setSucceeded,
                   v4SetThenBackup, backedUp, backupOrder, systemGw, DnsBackup,
                   dnsInstalled>>

Next ==
    \/ Respond
    \/ \E sessionRef \in SessionRefs :
        \/ \E report \in SystemGwReports : le_net_BackupDefaultGW(sessionRef, report)
        \/ \E v4PaResult \in RestoreResults(sessionRef, FALSE),
              v6PaResult \in RestoreResults(sessionRef, TRUE) :
               le_net_RestoreDefaultGW(sessionRef, v4PaResult, v6PaResult)
        \/ \E channelRef \in ChannelRefs :
               \E env \in SetDefaultGwEnvs(channelRef) :
                   le_net_SetDefaultGW(sessionRef, channelRef, env)

Spec == Init /\ [][Next]_vars

(***************************************************************************)
(* Properties of the gateway backup stack.                                 *)
(***************************************************************************)
\* Whether the session has a backup on the stack.
HoldsBackup(list, s) == \E i \in 1..Len(list) : list[i].appSessionRef = s

\* The step in which le_net_RestoreDefaultGW() runs for the session.
Restores(s) ==
    /\ call = Idle
    /\ call'.api = "le_net_RestoreDefaultGW"
    /\ call'.sessionRef = s

\* The calls among them made for one family.
FamilyCalls(calls, isIpv6) == SelectSeq(calls, LAMBDA c : c.isIpv6 = isIpv6)

\* Exactly one of the calls is for the family, and it names the interface and
\* the gateway address that the session's latest backup archived for it.
OneArchivedCall(s, isIpv6, calls) ==
    LET made == FamilyCalls(calls, isIpv6)
    IN  /\ Len(made) = 1
        /\ made[1].interface = (IF isIpv6 THEN backedUp[s].defaultV6Interface
                                 ELSE backedUp[s].defaultV4Interface)
        /\ made[1].gatewayAddr = (IF isIpv6 THEN backedUp[s].defaultV6GW
                                   ELSE backedUp[s].defaultV4GW)

\* C1: whatever backup, set and restore calls the sessions made (the internal
\* session 0 included), the stack holds at most one backup per session reference.
OneBackupPerSession ==
    \A i, j \in 1..Len(DcsDefaultGwConfigDbList) :
        DcsDefaultGwConfigDbList[i].appSessionRef
            = DcsDefaultGwConfigDbList[j].appSessionRef => i = j

\* C1 happens: a session that held a backup, and whose set had succeeded, backed
\* up again while every session holds a backup.
RebackupOnFullStack ==
    /\ call.api = "le_net_BackupDefaultGW"
    /\ v4SetThenBackup[call.sessionRef]
    /\ Len(DcsDefaultGwConfigDbList) = NumClients + 1

\* C2, as far as the code goes: if the session holds a backup when its set
\* succeeds for a family, and it does not call backup between that set and its
\* next restore, then that restore makes exactly one adapter call for the
\* family, with the interface and gateway address its latest backup archived.
RestoreReinstatesArchived ==
    [][\A s \in SessionRefs :
           Restores(s) =>
               /\ setSucceeded[s].v4 => OneArchivedCall(s, FALSE, paCalls')
               /\ setSucceeded[s].v6 => OneArchivedCall(s, TRUE, paCalls')]_vars

\* C2 happens: a restore, not in the reversed order of the backups, made the
\* adapter calls of both families while another session's backup stays.
RestoredBothOutOfOrder ==
    /\ call.api = "le_net_RestoreDefaultGW"
    /\ Len(paCalls) = 2
    /\ "not in reversed order" \in warned
    /\ DcsDefaultGwConfigDbList # << >>

\* C2 as the specification states it, for IPv4: after a set by the session
\* succeeded for the family, a later restore by the session makes exactly one
\* adapter call for the family with the archived interface and gateway address
\* (here: also when the session backed up again after the set).
RestoreAfterAnySetReinstates ==
    [][\A s \in SessionRefs :
           Restores(s) /\ (setSucceeded[s].v4 \/ v4SetThenBackup[s])
               => OneArchivedCall(s, FALSE, paCalls')]_vars

\* C3: if the session called backup and calls restore with no set of its own in
\* between, whatever it did before and whatever the other sessions do, the
\* restore makes no adapter call.
BackupThenRestoreIsSilent ==
    [][\A s \in SessionRefs :
           Restores(s) /\ lastBackupOrSet[s] = "backup" => paCalls' = << >>]_vars

\* C3 happens: such a restore found the session's backup, under or above those
\* of other sessions, and made no call.
SilentRestoreFound ==
    /\ call.api = "le_net_RestoreDefaultGW"
    /\ lastBackupOrSet[call.sessionRef] = "backup"
    /\ result = "LE_OK"
    /\ paCalls = << >>
    /\ DcsDefaultGwConfigDbList # << >>

\* The session's backup on the stack.
BackupOf(list, s) == list[CHOOSE i \in 1..Len(list) : list[i].appSessionRef = s]

\* The step in which le_net_BackupDefaultGW() runs for the session.
BacksUp(s) ==
    /\ call = Idle
    /\ call'.api = "le_net_BackupDefaultGW"
    /\ call'.sessionRef = s

\* The step in which le_net_SetDefaultGW() runs for the session.
Sets(s) ==
    /\ call = Idle
    /\ call'.api = "le_net_SetDefaultGW"
    /\ call'.sessionRef = s

\* C4 as the specification states it: when a session that holds a backup backs
\* up again, the flag of each family is true afterwards exactly when it was true
\* before and the new gateway address and interface equal the archived ones.
RebackupKeepsMatchingFlags ==
    [][\A s \in SessionRefs :
           BacksUp(s) /\ HoldsBackup(DcsDefaultGwConfigDbList, s) =>
               LET old == BackupOf(DcsDefaultGwConfigDbList, s)
                   new == BackupOf(DcsDefaultGwConfigDbList', s)
               IN  /\ new.setV4GwToSystem
                         = (/\ old.setV4GwToSystem
                            /\ new.defaultV4GW = old.defaultV4GW
                            /\ new.defaultV4Interface = old.defaultV4Interface)
                   /\ new.setV6GwToSystem
                         = (/\ old.setV6GwToSystem
                            /\ new.defaultV6GW = old.defaultV6GW
                            /\ new.defaultV6Interface = old.defaultV6Interface)]_vars

\* C5: a restore by a session removes that session's backup and nothing else,
\* wherever it sits: the backups of the other sessions keep their archived
\* fields, their flags and their order, also when the backup is not the head.
RestoreRemovesOwnBackupOnly ==
    [][\A s \in SessionRefs :
           Restores(s) /\ HoldsBackup(DcsDefaultGwConfigDbList, s) =>
               /\ DcsDefaultGwConfigDbList'
                     = SelectSeq(DcsDefaultGwConfigDbList,
                                 LAMBDA db : db.appSessionRef # s)
               /\ Len(DcsDefaultGwConfigDbList') = Len(DcsDefaultGwConfigDbList) - 1]_vars

\* C5 happens: a restore not in the reversed order of the backups went through
\* and the backups of all the other sessions are still there.
OutOfOrderRestoreLeftOthers ==
    /\ call.api = "le_net_RestoreDefaultGW"
    /\ "not in reversed order" \in warned
    /\ Len(DcsDefaultGwConfigDbList) = NumClients
    /\ \E i \in 1..Len(DcsDefaultGwConfigDbList) :
           DcsDefaultGwConfigDbList[i].setV4GwToSystem

\* Whether a call was made for the family and none made for it returned LE_OK.
FamilyFailed(calls, isIpv6) ==
    /\ FamilyCalls(calls, isIpv6) # << >>
    /\ ~PaSetOk(calls, isIpv6)

RestoreOkOnlyOnSuccess ==
    (/\ call.api = "le_net_RestoreDefaultGW"
     /\ paCalls # << >>
     /\ \A i \in 1..Len(paCalls) : paCalls[i].ret # "LE_OK")
        => result # "LE_OK"

\* C8: once a restore found the session's backup, the backup is off the stack
\* whatever the adapter returned; the stack is the same when the next call is
\* taken, and a restore by the session taken then returns LE_NOT_FOUND without
\* an adapter call.
RestoreConsumesBackup ==
    /\ [](call.api = "le_net_RestoreDefaultGW"
             => ~HoldsBackup(DcsDefaultGwConfigDbList, call.sessionRef))
    /\ [][/\ call # Idle => DcsDefaultGwConfigDbList' = DcsDefaultGwConfigDbList
          /\ \A s \in SessionRefs :
                 Restores(s) /\ ~HoldsBackup(DcsDefaultGwConfigDbList, s)
                     => result' = "LE_NOT_FOUND" /\ paCalls' = << >>]_vars

\* C8 happens: a restore found the backup, every adapter call failed, and the
\* backup is gone.
FailedRestoreConsumedBackup ==
    /\ call.api = "le_net_RestoreDefaultGW"
    /\ result = "LE_FAULT"
    /\ Len(paCalls) = 2
    /\ ~HoldsBackup(DcsDefaultGwConfigDbList, call.sessionRef)

\* C9 as the specification states it: le_net_SetDefaultGW() returns
\* LE_UNSUPPORTED, LE_FAULT or LE_OK and nothing else.
SetResultCodes ==
    call.api = "le_net_SetDefaultGW"
        => result \in {"LE_UNSUPPORTED", "LE_FAULT", "LE_OK"}

\* C10: a set by a session without backup makes the adapter calls it would make
\* with one and returns the same, LE_OK exactly when one of them succeeds, and
\* leaves the stack as it is (no backup is created); the stack is the same when
\* the next call is taken, and a restore by the session taken then returns
\* LE_NOT_FOUND without an adapter call.
SetWithoutBackupNotRestorable ==
    /\ [](call = Idle =>
            \A s \in SessionRefs :
                ~HoldsBackup(DcsDefaultGwConfigDbList, s) =>
                    \A channelRef \in ChannelRefs :
                        \A env \in SetDefaultGwEnvs(channelRef) :
                            LET bare == SetDefaultGW(DcsDefaultGwConfigDbList, s,
                                                     channelRef, env)
                            IN  /\ bare.list = DcsDefaultGwConfigDbList
                                /\ (bare.result = "LE_OK")
                                      = (\/ PaSetOk(bare.paCalls, TRUE)
                                         \/ PaSetOk(bare.paCalls, FALSE))
                                /\ \A report \in SystemGwReports :
                                       LET backed ==
                                               SetDefaultGW(
                                                   InsertDefaultGwBackupDb(
                                                       DcsDefaultGwConfigDbList, s, report),
                                                   s, channelRef, env)
                                       IN  /\ bare.paCalls = backed.paCalls
                                           /\ bare.result = backed.result)
    /\ [][/\ \A s \in SessionRefs :
                 Sets(s) /\ ~HoldsBackup(DcsDefaultGwConfigDbList, s)
                     => DcsDefaultGwConfigDbList' = DcsDefaultGwConfigDbList
          /\ call # Idle => DcsDefaultGwConfigDbList' = DcsDefaultGwConfigDbList
          /\ \A s \in SessionRefs :
                 Restores(s) /\ lastBackupOrSet[s] = "set"
                             /\ ~HoldsBackup(DcsDefaultGwConfigDbList, s)
                     => result' = "LE_NOT_FOUND" /\ paCalls' = << >>]_vars

\* C10 happens: a set by a session without backup, under the backup of another
\* session, made both adapter calls, one of which succeeded, and returned LE_OK.
SetWithoutBackupWentThrough ==
    /\ call.api = "le_net_SetDefaultGW"
    /\ "not backed up" \in warned
    /\ ~HoldsBackup(DcsDefaultGwConfigDbList, call.sessionRef)
    /\ DcsDefaultGwConfigDbList # << >>
    /\ Len(paCalls) = 2
    /\ \E i \in 1..2 : paCalls[i].ret # "LE_OK"
    /\ result = "LE_OK"

(***************************************************************************)
(* The DNS functions.                                                      *)
(***************************************************************************)
\* The results pa_dcs_SetDnsNameServers() may give.
DnsPaResults == {"LE_OK", "LE_DUPLICATE", "LE_FAULT"}

DnsLeaseNames ==
    {"noPath", "noFile", "noRouters", "v4Dns", "v6v4Dns", "longV4Dns", "twoLongV4Dns"}

\* GetLeaseAddresses() for the DNS servers of each of these files.
LeaseDnsAddresses ==
    [name \in DnsLeaseNames |->
        GetLeaseAddresses(LeaseFile(name), "LE_NET_DNS_SERVER_ADDRESS",
                          PA_DCS_IPV4_ADDR_MAX_BYTES, PA_DCS_IPV6_ADDR_MAX_BYTES,
                          MAX_NUM_DNS_ADDRESS_BY_TYPE)]

\* The C string read at slot i of an array of slots of size bytes each.  strncpy()
\* leaves a slot without terminator when the token fills it: the string then
\* runs on through the next slot, and behind the last slot through the bytes
\* that follow the array in memory, which are beyond.
RECURSIVE SlotString(_, _, _, _)
SlotString(slots, i, size, beyond) ==
    IF i > Len(slots) THEN beyond
    ELSE IF Len(slots[i]) < size THEN slots[i]
    ELSE slots[i] \o SlotString(slots, i + 1, size, beyond)

\* v4DnsAddrs[0..1] and v6DnsAddrs[0..1] as the strings the function reads.
DnsStrings(res, v4, v6, beyond) ==
    [result |-> res,
     v4 |-> <<SlotString(v4, 1, PA_DCS_IPV4_ADDR_MAX_BYTES, beyond),
              SlotString(v4, 2, PA_DCS_IPV4_ADDR_MAX_BYTES, beyond)>>,
     v6 |-> <<SlotString(v6, 1, PA_DCS_IPV6_ADDR_MAX_BYTES, beyond),
              SlotString(v6, 2, PA_DCS_IPV6_ADDR_MAX_BYTES, beyond)>>]

\* The strings of each lease file, by what follows the arrays in memory.
LeaseDnsStrings ==
    [name \in DnsLeaseNames |->
        [beyond \in {EmptyStr, <<"?">>} |->
            DnsStrings(LeaseDnsAddresses[name].result, LeaseDnsAddresses[name].v4,
                       LeaseDnsAddresses[name].v6, beyond)]]

\* What the environment answers during one le_net_SetDNS() call: the result of
\* le_dcsTech_GetNetInterface(), the result and the addresses of
\* le_dcsTech_GetDNSAddresses(), the lease file of the interface (its name), the
\* bytes behind the address arrays, the results of pa_dcs_SetDnsNameServers()
\* for IPv6 and for IPv4.
MkDnsEnv(intfResult, techResult, techV4, techV6, lease, beyond, v6PaResult, v4PaResult) ==
    [intfResult |-> intfResult, techResult |-> techResult, techV4 |-> techV4,
     techV6 |-> techV6, lease |-> lease, beyond |-> beyond,
     v6PaResult |-> v6PaResult, v4PaResult |-> v4PaResult]

\* Lines 967-987: where the DNS addresses of the channel come from.
GetDnsAddresses(channelDb, env) ==
    IF channelDb.technology = "LE_DCS_TECH_CELLULAR"
    THEN DnsStrings(env.techResult, env.techV4, env.techV6, env.beyond)
    ELSE LeaseDnsStrings[env.lease][env.beyond]

\* A pa_dcs_SetDnsNameServers() call and its result; isIpv6 tells which of the
\* two call sites made it.
PaDnsCall(dns1Addr, dns2Addr, isIpv6, ret) ==
    [fn |-> "pa_dcs_SetDnsNameServers", dns1Addr |-> dns1Addr, dns2Addr |-> dns2Addr,
     isIpv6 |-> isIpv6, ret |-> ret]

\* DcsNetSetDNS() once pa_dcs_SetDnsNameServers() returned ret, which it returns
\* in turn: DnsBackup afterwards.
DcsNetSetDNS(backup, isIpv6, dns1Addr, dns2Addr, dnsAddrSize, ret) ==
    IF ret = "LE_DUPLICATE" THEN backup
    ELSE IF ret # "LE_OK" THEN backup
    ELSE IF isIpv6
    THEN [backup EXCEPT !.newDnsIPv6 = <<Utf8Copy(dns1Addr, dnsAddrSize).str,
                                         Utf8Copy(dns2Addr, dnsAddrSize).str>>]
    ELSE [backup EXCEPT !.newDnsIPv4 = <<Utf8Copy(dns1Addr, dnsAddrSize).str,
                                         Utf8Copy(dns2Addr, dnsAddrSize).str>>]

\* A result that lets LE_OK of one family hide LE_DUPLICATE of the other.
SetDnsResult_OkFirst(v4Ret, v6Ret) ==
    IF (v4Ret = "LE_OK") \/ (v6Ret = "LE_OK") THEN "LE_OK"
    ELSE IF (v4Ret = "LE_DUPLICATE") \/ (v6Ret = "LE_DUPLICATE") THEN "LE_DUPLICATE"
    ELSE "LE_FAULT"

\* Lines 1026-1039: the result of le_net_SetDNS() from the results of the two families.
SetDnsResult(v4Ret, v6Ret) ==
    IF (v4Ret = "LE_DUPLICATE") \/ (v6Ret = "LE_DUPLICATE") THEN "LE_DUPLICATE"
    ELSE IF (v4Ret = "LE_OK") \/ (v6Ret = "LE_OK") THEN "LE_OK"
    ELSE "LE_FAULT"

\* A return of le_net_SetDNS() before any adapter call.
DnsEarlyReturn(backup, res, asked) ==
    [result |-> res, backup |-> backup, netCalls |-> << >>, queried |-> asked]

\* Lines 1004-1040: the addresses are known and at least one is not empty.
SetDnsServers(backup, addr, env) ==
    LET try6 == (Len(addr.v6[1]) > 0) \/ (Len(addr.v6[2]) > 0)
        try4 == (Len(addr.v4[1]) > 0) \/ (Len(addr.v4[2]) > 0)
        v6Ret == IF try6 THEN env.v6PaResult ELSE "LE_FAULT"
        v4Ret == IF try4 THEN env.v4PaResult ELSE "LE_FAULT"
        backup6 == IF try6
                   THEN DcsNetSetDNS(backup, TRUE, addr.v6[1], addr.v6[2],
                                     PA_DCS_IPV6_ADDR_MAX_BYTES, v6Ret)
                   ELSE backup
        backup4 == IF try4
                   THEN DcsNetSetDNS(backup6, FALSE, addr.v4[1], addr.v4[2],
                                     PA_DCS_IPV4_ADDR_MAX_BYTES, v4Ret)
                   ELSE backup6
    IN  [result |-> SetDnsResult(v4Ret, v6Ret),
         backup |-> backup4,
         netCalls |-> (IF try6 THEN <<PaDnsCall(addr.v6[1], addr.v6[2], TRUE, v6Ret)>>
                       ELSE << >>)
                      \o (IF try4 THEN <<PaDnsCall(addr.v4[1], addr.v4[2], FALSE, v4Ret)>>
                          ELSE << >>),
         queried |-> addr]

\* A set that has nothing to do, and reports LE_OK, when the channel has no DNS
\* address.
SetDnsQueried_EmptyOk(backup, addr, env) ==
    IF addr.result # "LE_OK" THEN DnsEarlyReturn(backup, addr.result, addr)
    ELSE IF /\ Len(addr.v4[1]) = 0 /\ Len(addr.v4[2]) = 0
            /\ Len(addr.v6[1]) = 0 /\ Len(addr.v6[2]) = 0
    THEN DnsEarlyReturn(backup, "LE_OK", addr)
    ELSE SetDnsServers(backup, addr, env)

\* Lines 989-1040: the address query has answered.
SetDnsQueried(backup, addr, env) ==
    IF addr.result # "LE_OK" THEN DnsEarlyReturn(backup, addr.result, addr)
    ELSE IF /\ Len(addr.v4[1]) = 0 /\ Len(addr.v4[2]) = 0
            /\ Len(addr.v6[1]) = 0 /\ Len(addr.v6[2]) = 0
    THEN DnsEarlyReturn(backup, "LE_FAULT", addr)
    ELSE SetDnsServers(backup, addr, env)

\* le_net_SetDNS() as a function of DnsBackup and of the environment.
SetDNS(backup, channelRef, env) ==
    LET channelDb == le_dcs_GetChannelDbFromRef(channelRef)
    IN  IF channelDb = NoChannelDb THEN DnsEarlyReturn(backup, "LE_FAULT", NoQuery)
        ELSE IF TechUnsupported(channelDb.technology)
        THEN DnsEarlyReturn(backup, "LE_UNSUPPORTED", NoQuery)
        ELSE IF /\ channelDb.technology # "LE_DCS_TECH_CELLULAR"
                /\ env.intfResult # "LE_OK"
        THEN DnsEarlyReturn(backup, "LE_FAULT", NoQuery)
        ELSE SetDnsQueried(backup, GetDnsAddresses(channelDb, env), env)

\* The results pa_dcs_SetDnsNameServers() may give for the two addresses of a
\* family: it is not called when both are empty.
DnsPaResultsFor(addrs) ==
    IF (Len(addrs[1]) > 0) \/ (Len(addrs[2]) > 0) THEN DnsPaResults ELSE {"LE_FAULT"}

\* The answers for a lease file: the bytes behind the arrays matter when both
\* IPv4 slots are filled to the end.
LeaseDnsEnvs(lease, beyond) ==
    IF beyond # EmptyStr /\ lease # "twoLongV4Dns" THEN {}
    ELSE {MkDnsEnv("LE_OK", "LE_FAULT", NoDns, NoDns, lease, beyond, r6, r4) :
             r6 \in DnsPaResultsFor(LeaseDnsStrings[lease][beyond].v6),
             r4 \in DnsPaResultsFor(LeaseDnsStrings[lease][beyond].v4)}

\* The answers that matter for a channel: a channel that is not resolved or not
\* supported asks nothing, a cellular channel asks its technology for the
\* addresses and never for the interface, another one reads the lease file.
SetDnsEnvs(channelRef) ==
    LET technology == le_dcs_GetChannelDbFromRef(channelRef).technology
        quiet == MkDnsEnv("LE_FAULT", "LE_FAULT", NoDns, NoDns, "noPath", EmptyStr,
                          "LE_FAULT", "LE_FAULT")
    IN  IF technology = "none" \/ TechUnsupported(technology) THEN {quiet}
        ELSE IF technology = "LE_DCS_TECH_CELLULAR"
        THEN {quiet}
             \cup UNION {{MkDnsEnv("LE_FAULT", "LE_OK", v4, v6, "noPath", EmptyStr, r6, r4) :
                             r6 \in DnsPaResultsFor(v6), r4 \in DnsPaResultsFor(v4)} :
                         v4 \in {NoDns, <<Dns4a, Dns4b>>, <<EmptyStr, Dns4b>>},
                         v6 \in {NoDns, <<Dns6a, EmptyStr>>}}
        ELSE {quiet}
             \cup UNION {LeaseDnsEnvs(lease, beyond) :
                         lease \in DnsLeaseNames, beyond \in {EmptyStr, <<"?">>}}

\* The addresses of the last call among calls that was made for the family and
\* returned LE_OK, before if there is none.
LatestOk(calls, isIpv6, before) ==
    LET ok == SelectSeq(calls, LAMBDA c : c.isIpv6 = isIpv6 /\ c.ret = "LE_OK")
    IN  IF ok = << >> THEN before
        ELSE <<ok[Len(ok)].dns1Addr, ok[Len(ok)].dns2Addr>>

\* The variables of the gateway stack.
gwVars == <<DcsDefaultGwConfigDbList, lastBackupOrSet, setSucceeded, v4SetThenBackup,
            backedUp, backupOrder, destructed, systemGw>>

\* le_net_SetDNS() returns done.
SetDnsReturns(channelRef, done) ==
    /\ call' = [api |-> "le_net_SetDNS", channelRef |-> channelRef]
    /\ result' = done.result
    /\ netCalls' = done.netCalls
    /\ queried' = done.queried
    /\ DnsBackup' = done.backup
    /\ dnsInstalled' = [v4 |-> LatestOk(done.netCalls, FALSE, dnsInstalled.v4),
                        v6 |-> LatestOk(done.netCalls, TRUE, dnsInstalled.v6)]
    /\ paCalls' = << >>
    /\ warned' = {}
    /\ UNCHANGED addrOut
    /\ UNCHANGED gwVars

le_net_SetDNS(channelRef, env) ==
    /\ call = Idle
    /\ SetDnsReturns(channelRef, SetDNS(DnsBackup, channelRef, env))

\* The adapter is handed the record to undo what it names, and leaves it as it is.
pa_dcs_RestoreInitialDnsNameServers(backup) == backup

PaRestoreDnsCall(backup) ==
    [fn |-> "pa_dcs_RestoreInitialDnsNameServers", backup |-> backup]

le_net_RestoreDNS ==
    /\ call = Idle
    /\ call' = [api |-> "le_net_RestoreDNS"]
    /\ result' = "void"
    /\ netCalls' = <<PaRestoreDnsCall(DnsBackup)>>
    /\ DnsBackup' = pa_dcs_RestoreInitialDnsNameServers(DnsBackup)
    /\ queried' = NoQuery
    /\ paCalls' = << >>
    /\ warned' = {}
    /\ UNCHANGED <<dnsInstalled, addrOut>>
    /\ UNCHANGED gwVars

(***************************************************************************)
(* The get functions.                                                      *)
(***************************************************************************)
\* Sizes of the address fields of le_net_DefaultGatewayAddresses_t and of
\* le_net_DnsServerAddresses_t.
LE_NET_IPV4ADDR_MAX_BYTES == 16
LE_NET_IPV6ADDR_MAX_BYTES == 46

\* The addr argument of a get function: NULL or a structure of the caller.
AddrArgs == {"NULL", "structure"}

\* What the environment answers during one get call: the result of
\* le_dcsTech_GetNetInterface(), the lease file of the interface (its name), the
\* bytes behind the address arrays.
MkGetEnv(intfResult, lease, beyond) ==
    [intfResult |-> intfResult, lease |-> lease, beyond |-> beyond]

\* The answers that matter: a channel that is not resolved asks nothing.
GetEnvs(channelRef, leases) ==
    LET quiet == MkGetEnv("LE_FAULT", "noPath", EmptyStr)
    IN  IF le_dcs_GetChannelDbFromRef(channelRef) = NoChannelDb THEN {quiet}
        ELSE {quiet}
             \cup {MkGetEnv("LE_OK", lease, EmptyStr) : lease \in leases}
             \cup {MkGetEnv("LE_OK", lease, <<"?">>) : lease \in leases \cap {"twoLongV4Dns"}}

\* A return of a get function before the address query.
GetEarlyReturn(res, out) == [result |-> res, out |-> out, queried |-> NoQuery]

\* Lines 804-812: the fields are what GetLeaseAddresses() left in them, and its
\* result is returned.
GwGot(got) ==
    [result |-> got.result,
     out |-> [written |-> "yes", ipv4Addr |-> got.v4[1], ipv6Addr |-> got.v6[1]],
     queried |-> got]

\* le_net_GetDefaultGW() as a function of the environment.
GetDefaultGW(channelRef, addr, env) ==
    IF addr = "NULL" THEN GetEarlyReturn("LE_FAULT", NoAddr)
    ELSE IF le_dcs_GetChannelDbFromRef(channelRef) = NoChannelDb
    THEN GetEarlyReturn("LE_FAULT", Untouched)
    ELSE IF env.intfResult # "LE_OK" THEN GetEarlyReturn("LE_FAULT", Untouched)
    ELSE GwGot(LeaseGwAddresses[env.lease])

\* Lines 1087-1105: the structure is zeroed, and filled when the lease file
\* was read.
DnsGot(got) ==
    IF got.result # "LE_OK"
    THEN [result |-> "LE_FAULT",
          out |-> [written |-> "yes", ipv4Addr1 |-> EmptyStr, ipv4Addr2 |-> EmptyStr,
                   ipv6Addr1 |-> EmptyStr, ipv6Addr2 |-> EmptyStr],
          queried |-> got]
    ELSE [result |-> got.result,
          out |-> [written |-> "yes",
                   ipv4Addr1 |-> Utf8Copy(got.v4[1], LE_NET_IPV4ADDR_MAX_BYTES).str,
                   ipv4Addr2 |-> Utf8Copy(got.v4[2], LE_NET_IPV4ADDR_MAX_BYTES).str,
                   ipv6Addr1 |-> Utf8Copy(got.v6[1], LE_NET_IPV6ADDR_MAX_BYTES).str,
                   ipv6Addr2 |-> Utf8Copy(got.v6[2], LE_NET_IPV6ADDR_MAX_BYTES).str],
          queried |-> got]

\* le_net_GetDNS() as a function of the environment.
GetDNS(channelRef, addr, env) ==
    IF addr = "NULL" THEN GetEarlyReturn("LE_FAULT", NoAddr)
    ELSE IF le_dcs_GetChannelDbFromRef(channelRef) = NoChannelDb
    THEN GetEarlyReturn("LE_FAULT", Untouched)
    ELSE IF env.intfResult # "LE_OK" THEN GetEarlyReturn("LE_FAULT", Untouched)
    ELSE DnsGot(LeaseDnsStrings[env.lease][env.beyond])

\* A get function returns done.
GetReturns(api, channelRef, addr, done) ==
    /\ call' = [api |-> api, channelRef |-> channelRef, addr |-> addr]
    /\ result' = done.result
    /\ addrOut' = done.out
    /\ queried' = done.queried
    /\ netCalls' = << >>
    /\ paCalls' = << >>
    /\ warned' = {}
    /\ UNCHANGED <<DnsBackup, dnsInstalled>>
    /\ UNCHANGED gwVars

le_net_GetDefaultGW(channelRef, addr, env) ==
    /\ call = Idle
    /\ GetReturns("le_net_GetDefaultGW", channelRef, addr,
                  GetDefaultGW(channelRef, addr, env))

le_net_GetDNS(channelRef, addr, env) ==
    /\ call = Idle
    /\ GetReturns("le_net_GetDNS", channelRef, addr, GetDNS(channelRef, addr, env))

(***************************************************************************)
(* The route functions.  A char pointer argument is a string or NullPtr.   *)
(***************************************************************************)
NullPtr == <<"NULL">>

\* '\v', which has no escape here.
VT == "VT"

\* isspace() in the C locale.
IsSpace(c) == c \in {" ", "\t", "\n", VT, "\f", "\r"}

\* The loops of lines 1241-1244 and 1254-1257: the pointer moves over the
\* leading white space.
RECURSIVE StripLeadingSpace(_)
StripLeadingSpace(str) ==
    IF str # << >> /\ IsSpace(Head(str)) THEN StripLeadingSpace(Tail(str)) ELSE str

DigitChars == <<"0", "1", "2", "3", "4", "5", "6", "7", "8", "9">>

IsDigit(c) == \E i \in 1..Len(DigitChars) : DigitChars[i] = c

DigitValue(c) == (CHOOSE i \in 1..Len(DigitChars) : DigitChars[i] = c) - 1

\* The number the leading decimal digits of str stand for, from acc on.
RECURSIVE LeadingDigits(_, _)
LeadingDigits(str, acc) ==
    IF str # << >> /\ IsDigit(Head(str))
    THEN LeadingDigits(Tail(str), (10 * acc) + DigitValue(Head(str)))
    ELSE acc

\* strtol(nptr, &endptr, 10) of a string of a few bytes: white space, an
\* optional sign, the decimal digits that follow; what follows them is left to
\* endptr, and 0 is returned when there is no digit.
Strtol(nptr) ==
    LET str == StripLeadingSpace(nptr)
    IN  IF str # << >> /\ Head(str) = "-" THEN 0 - LeadingDigits(Tail(str), 0)
        ELSE IF str # << >> /\ Head(str) = "+" THEN LeadingDigits(Tail(str), 0)
        ELSE LeadingDigits(str, 0)

\* (int16_t) of a long.
ToInt16(n) ==
    LET m == n % 65536
    IN  IF m >= 32768 THEN m - 65536 ELSE m

IPV6_PREFIX_LENGTH_MAX == 8 * 8 * 2
IPV6_PREFIX_LEN_STR_LENGTH == 3

\* DcsConvertPrefixLengthString(): the end pointer of strtol() is not looked at.
DcsConvertPrefixLengthString(input) ==
    IF input = NullPtr THEN 0
    ELSE IF Len(input) = 0 THEN 0
    ELSE IF Len(input) > IPV6_PREFIX_LEN_STR_LENGTH THEN -1
    ELSE ToInt16(Strtol(input))

\* The pieces of str between the occurrences of sep, empty ones included.
RECURSIVE Split(_, _)
Split(str, sep) ==
    LET at == IndexFrom(str, sep, 1)
    IN  IF at = 0 THEN <<str>>
        ELSE <<SubSeq(str, 1, at - 1)>> \o Split(SubSeq(str, at + 1, Len(str)), sep)

\* One number of a dotted quad as inet_pton() takes it: decimal digits, no
\* leading zero, at most 255.
IsOctet(part) ==
    /\ Len(part) \in 1..3
    /\ \A i \in 1..Len(part) : IsDigit(part[i])
    /\ Len(part) > 1 => part[1] # "0"
    /\ LeadingDigits(part, 0) <= 255

\* inet_pton(AF_INET, src, dst) = 1: four such numbers with dots between them.
InetPton4(src) ==
    LET parts == Split(src, ".")
    IN  /\ Len(parts) = 4
        /\ \A i \in 1..4 : IsOctet(parts[i])

IsHexDigit(c) ==
    \/ IsDigit(c)
    \/ c \in {"a", "b", "c", "d", "e", "f", "A", "B", "C", "D", "E", "F"}

IsHexGroup(part) ==
    /\ Len(part) \in 1..4
    /\ \A i \in 1..Len(part) : IsHexDigit(part[i])

\* The fields between the colons of src, the double colon at either end
\* counted as one empty field.
Inet6Fields(src) ==
    LET all == Split(src, ":")
        n == Len(src)
        front == IF n >= 2 /\ SubSeq(src, 1, 2) = <<":", ":">> THEN Tail(all) ELSE all
    IN  IF n >= 2 /\ SubSeq(src, n - 1, n) = <<":", ":">>
        THEN SubSeq(front, 1, Len(front) - 1)
        ELSE front

\* The 16-bit groups the fields stand for: a dotted quad at the end fills two.
Inet6Groups(fields) ==
    LET n == Len(fields)
        filled == {i \in 1..n : fields[i] # << >>}
    IN  IF n > 0 /\ InetPton4(fields[n]) THEN Cardinality(filled) + 1
        ELSE Cardinality(filled)

\* inet_pton(AF_INET6, src, dst) = 1: groups of one to four hexadecimal digits
\* between colons, the last of which may be a dotted quad; one double colon may
\* stand for the groups that are zero; eight groups in all.
InetPton6(src) ==
    LET n == Len(src)
        fields == Inet6Fields(src)
        empties == {i \in 1..Len(fields) : fields[i] = << >>}
    IN  /\ n >= 2
        /\ src[1] = ":" => src[2] = ":"
        /\ src[n] = ":" => src[n - 1] = ":"
        /\ \A i \in 1..Len(fields) :
               \/ fields[i] = << >>
               \/ IsHexGroup(fields[i])
               \/ i = Len(fields) /\ InetPton4(fields[i])
        /\ \/ Cardinality(empties) = 0 /\ Inet6Groups(fields) = 8
           \/ Cardinality(empties) = 1 /\ Inet6Groups(fields) <= 7

\* A validation that takes every address for valid.
DcsNetValidateIpAddress_Any(af, addStr) == "LE_OK"

DcsNetValidateIpAddress(af, addStr) ==
    IF (IF af = "AF_INET" THEN InetPton4(addStr) ELSE InetPton6(addStr))
    THEN "LE_OK" ELSE "LE_FAULT"

\* inet_aton(cp, &addr) for the strings this file hands it, which inet_pton() has
\* accepted before: it returns 1 and the four bytes of the address.
InetAton(cp) ==
    LET parts == Split(cp, ".")
    IN  IF InetPton4(cp)
        THEN [ret |-> 1, s_addr |-> [i \in 1..4 |-> LeadingDigits(parts[i], 0)]]
        ELSE [ret |-> 0, s_addr |-> [i \in 1..4 |-> 0]]

\* The loop of lines 1175-1182 on one byte of s_addr: the bits set in it.
RECURSIVE BitsSet(_)
BitsSet(byte) == IF byte = 0 THEN 0 ELSE (byte % 2) + BitsSet(byte \div 2)

\* The decimal digits of a natural number, as "%d" prints it.
RECURSIVE ToDecimal(_)
ToDecimal(n) ==
    IF n < 10 THEN <<DigitChars[n + 1]>>
    ELSE ToDecimal(n \div 10) \o <<DigitChars[(n % 10) + 1]>>

\* snprintf(str, size, "%d", n): the length of the digits is returned, and the
\* buffer holds what fits before its terminator.
Snprintf(size, n) ==
    [ret |-> Len(ToDecimal(n)), str |-> Take(ToDecimal(n), size - 1)]

\* A conversion that counts the bits up to the first one that is clear.
RECURSIVE LeadingOnes(_, _)
LeadingOnes(byte, bit) ==
    IF bit = 0 \/ (byte \div bit) % 2 = 0 THEN 0 ELSE 1 + LeadingOnes(byte, bit \div 2)

ConvertSubnetMaskToPrefixLength_Leading(subnetMask, prefixLengthSz) ==
    LET first == LeadingOnes(InetAton(subnetMask).s_addr[1], 128)
    IN  IF InetAton(subnetMask).ret # 1 THEN [result |-> "LE_FAULT", prefixLengthStr |-> EmptyStr]
        ELSE [result |-> "LE_OK", prefixLengthStr |-> Snprintf(prefixLengthSz, first).str]

\* The bits of s_addr are counted byte by byte: their number does not depend on
\* the byte order.
ConvertSubnetMaskToPrefixLength(subnetMask, prefixLengthSz) ==
    LET subnetStruct == InetAton(subnetMask)
        prefixLength == BitsSet(subnetStruct.s_addr[1]) + BitsSet(subnetStruct.s_addr[2])
                        + BitsSet(subnetStruct.s_addr[3]) + BitsSet(subnetStruct.s_addr[4])
        printed == Snprintf(prefixLengthSz, prefixLength)
    IN  IF subnetStruct.ret # 1 THEN [result |-> "LE_FAULT", prefixLengthStr |-> EmptyStr]
        ELSE IF printed.ret > prefixLengthSz
        THEN [result |-> "LE_OVERFLOW", prefixLengthStr |-> printed.str]
        ELSE [result |-> "LE_OK", prefixLengthStr |-> printed.str]

\* A pa_dcs_ChangeRoute() call and its result.
PaRouteCall(action, destAddr, prefixLength, interface, ret) ==
    [fn |-> "pa_dcs_ChangeRoute", action |-> action, destAddr |-> destAddr,
     prefixLength |-> prefixLength, interface |-> interface, ret |-> ret]

\* DcsNetChangeRoute(): the adapter call it makes, whose result it returns.
DcsNetChangeRoute(destAddr, prefixLength, interface, isAdd, ret) ==
    PaRouteCall(IF isAdd THEN "PA_DCS_ROUTE_ADD" ELSE "PA_DCS_ROUTE_DELETE",
                destAddr,
                IF prefixLength = NullPtr THEN EmptyStr ELSE prefixLength,
                interface, ret)

\* sizeof(bufPrefixLength)
BufPrefixLengthSize == 3

\* What the prefix checks of le_net_ChangeRoute() come to: the prefix to go on
\* with, or none, and the warnings logged.
PrefixOk(prefixLength, warnings) ==
    [ok |-> TRUE, prefixLength |-> prefixLength, warned |-> warnings]
PrefixBad(warnings) ==
    [ok |-> FALSE, prefixLength |-> NullPtr, warned |-> warnings]

\* Lines 1276-1288: the prefix of an IPv4 destination is a network mask.
MaskPrefix(converted) ==
    IF converted.result # "LE_OK" THEN PrefixBad({"prefix invalid", "deprecated"})
    ELSE PrefixOk(converted.prefixLengthStr, {"prefix invalid", "deprecated"})

\* Lines 1267-1293: the prefix of an IPv4 destination is out of range.
OutOfRangeV4(prefixLength) ==
    IF DcsNetValidateIpAddress("AF_INET", prefixLength) = "LE_OK"
    THEN MaskPrefix(ConvertSubnetMaskToPrefixLength(prefixLength, BufPrefixLengthSize))
    ELSE PrefixBad({"prefix invalid"})

\* A variant of the prefix checks that hands a prefix of value 0 on as it is.
CheckedPrefix_KeepZero(isIpv6, prefixLength, prefixLen) ==
    IF (prefixLen < 0) \/ (prefixLen > IPV6_PREFIX_LENGTH_MAX)
    THEN IF isIpv6 THEN PrefixBad({}) ELSE OutOfRangeV4(prefixLength)
    ELSE PrefixOk(prefixLength, {})

\* A variant of the prefix checks that holds an IPv4 prefix to 32 bits.
CheckedPrefix_V4Limit(isIpv6, prefixLength, prefixLen) ==
    IF (prefixLen < 0) \/ (prefixLen > (IF isIpv6 THEN IPV6_PREFIX_LENGTH_MAX ELSE 32))
    THEN IF isIpv6 THEN PrefixBad({}) ELSE OutOfRangeV4(prefixLength)
    ELSE IF prefixLen = 0 THEN PrefixOk(EmptyStr, {})
    ELSE PrefixOk(prefixLength, {})

\* Lines 1263-1300 and 1301-1316: the prefix, prefixLen being its conversion.
CheckedPrefix(isIpv6, prefixLength, prefixLen) ==
    IF (prefixLen < 0) \/ (prefixLen > IPV6_PREFIX_LENGTH_MAX)
    THEN IF isIpv6 THEN PrefixBad({}) ELSE OutOfRangeV4(prefixLength)
    ELSE IF prefixLen = 0 THEN PrefixOk(EmptyStr, {})
    ELSE PrefixOk(prefixLength, {})

\* Lines 1261-1321 for a destination of the family: a NULL prefix is not looked at.
ValidatePrefix(isIpv6, prefixLength) ==
    IF prefixLength = NullPtr THEN PrefixOk(prefixLength, {})
    ELSE CheckedPrefix(isIpv6, prefixLength, DcsConvertPrefixLengthString(prefixLength))

\* A return of le_net_ChangeRoute() before the adapter call.
RouteEarlyReturn(res, warnings) ==
    [result |-> res, netCalls |-> << >>, warned |-> warnings]

\* Lines 1323-1346: the arguments are valid.
RouteChecked(channelDb, destAddr, prefix, isAdd, env) ==
    IF ~prefix.ok THEN RouteEarlyReturn("LE_BAD_PARAMETER", prefix.warned)
    ELSE IF env.intfResult # "LE_OK" THEN RouteEarlyReturn(env.intfResult, prefix.warned)
    ELSE [result |-> env.paResult,
          netCalls |-> <<DcsNetChangeRoute(destAddr, prefix.prefixLength,
                                           channelDb.interface, isAdd, env.paResult)>>,
          warned |-> prefix.warned]

\* Lines 1238-1346: the channel is supported, the destination not NULL and
\* stripped, the prefix stripped.
RouteStripped(channelDb, destAddr, prefixLength, isAdd, env) ==
    IF DcsNetValidateIpAddress("AF_INET", destAddr) = "LE_OK"
    THEN RouteChecked(channelDb, destAddr, ValidatePrefix(FALSE, prefixLength), isAdd, env)
    ELSE IF DcsNetValidateIpAddress("AF_INET6", destAddr) = "LE_OK"
    THEN RouteChecked(channelDb, destAddr, ValidatePrefix(TRUE, prefixLength), isAdd, env)
    ELSE RouteEarlyReturn("LE_BAD_PARAMETER", {})

\* A pointer moved over the leading white space of its string, if it has one.
Stripped(ptr) == IF ptr = NullPtr THEN NullPtr ELSE StripLeadingSpace(ptr)

\* le_net_ChangeRoute() as a function of the environment.
ChangeRoute(channelRef, destAddr, prefixLength, isAdd, env) ==
    LET channelDb == le_dcs_GetChannelDbFromRef(channelRef)
    IN  IF channelDb = NoChannelDb THEN RouteEarlyReturn("LE_FAULT", {})
        ELSE IF TechUnsupported(channelDb.technology)
        THEN RouteEarlyReturn("LE_UNSUPPORTED", {})
        ELSE IF destAddr = NullPtr THEN RouteEarlyReturn("LE_BAD_PARAMETER", {})
        ELSE RouteStripped(channelDb, Stripped(destAddr), Stripped(prefixLength),
                           isAdd, env)

\* What the environment answers during one le_net_ChangeRoute() call: the result
\* of le_dcsTech_GetNetInterface() and the result of pa_dcs_ChangeRoute().
MkRouteEnv(intfResult, paResult) == [intfResult |-> intfResult, paResult |-> paResult]

\* The answers that matter for a channel.
RouteEnvs(channelRef) ==
    LET technology == le_dcs_GetChannelDbFromRef(channelRef).technology
    IN  IF technology = "none" \/ TechUnsupported(technology)
        THEN {MkRouteEnv("LE_FAULT", "LE_FAULT")}
        ELSE {MkRouteEnv("LE_FAULT", "LE_FAULT")}
             \cup {MkRouteEnv("LE_OK", r) : r \in PaResults}

\* le_net_ChangeRoute() returns done.
RouteReturns(channelRef, destAddr, prefixLength, isAdd, done) ==
    /\ call' = [api |-> "le_net_ChangeRoute", channelRef |-> channelRef,
                destAddr |-> destAddr, prefixLength |-> prefixLength, isAdd |-> isAdd]
    /\ result' = done.result
    /\ netCalls' = done.netCalls
    /\ warned' = done.warned
    /\ queried' = NoQuery
    /\ paCalls' = << >>
    /\ UNCHANGED <<DnsBackup, dnsInstalled, addrOut>>
    /\ UNCHANGED gwVars

le_net_ChangeRoute(channelRef, destAddr, prefixLength, isAdd, env) ==
    /\ call = Idle
    /\ RouteReturns(channelRef, destAddr, prefixLength, isAdd,
                    ChangeRoute(channelRef, destAddr, prefixLength, isAdd, env))

(***************************************************************************)
(* The whole interface, with the gateway stack kept small: the sessions    *)
(* 0 .. NumNetClients - 1 call the gateway functions.                      *)
(***************************************************************************)
NumNetClients == 1

NetSessionRefs == 0..(NumNetClients - 1)

Dest4 == <<"1", "0", ".", "0", ".", "0", ".", "0">>
Dest6 == <<"2", "0", "0", "1", ":", "d", "b", "8", ":", ":">>

\* Destinations: none, an IPv4 and an IPv6 address, one that is neither.
NetDests == {NullPtr, Dest4, Dest6, <<"1", "0", ".", "0">>}

\* Prefixes: none, a prefix length, one that is no number.
NetPrefixes == {NullPtr, <<"2", "4">>, <<"/", "8">>}

NetNext ==
    \/ Respond
    \/ \E sessionRef \in NetSessionRefs :
        \/ \E report \in SystemGwReports : le_net_BackupDefaultGW(sessionRef, report)
        \/ \E v4PaResult \in RestoreResults(sessionRef, FALSE),
              v6PaResult \in RestoreResults(sessionRef, TRUE) :
               le_net_RestoreDefaultGW(sessionRef, v4PaResult, v6PaResult)
        \/ \E channelRef \in ChannelRefs :
               \E env \in SetDefaultGwEnvs(channelRef) :
                   le_net_SetDefaultGW(sessionRef, channelRef, env)
    \/ le_net_RestoreDNS
    \/ \E channelRef \in ChannelRefs :
        \/ \E env \in SetDnsEnvs(channelRef) : le_net_SetDNS(channelRef, env)
        \/ \E addr \in AddrArgs :
            \/ \E env \in GetEnvs(channelRef, LeaseNames) :
                   le_net_GetDefaultGW(channelRef, addr, env)
            \/ \E env \in GetEnvs(channelRef, DnsLeaseNames) :
                   le_net_GetDNS(channelRef, addr, env)
        \/ \E destAddr \in NetDests, prefixLength \in NetPrefixes, isAdd \in BOOLEAN :
               \E env \in RouteEnvs(channelRef) :
                   le_net_ChangeRoute(channelRef, destAddr, prefixLength, isAdd, env)

NetSpec == Init /\ [][NetNext]_vars

(***************************************************************************)
(* le_net_ChangeRoute() alone, over many destinations and prefixes.        *)
(***************************************************************************)
\* The decimal prefixes go from 0 to MaxPrefixValue.
MaxPrefixValue == 1000

\* The numbers of a network mask.
MaskOctets == {0, 1, 128, 255}

DottedQuad(a, b, c, d) ==
    ToDecimal(a) \o <<".">> \o ToDecimal(b) \o <<".">> \o ToDecimal(c) \o <<".">>
    \o ToDecimal(d)

RouteDests ==
    {NullPtr, EmptyStr, Dest4, <<" ", "\t">> \o Dest4, Dest6, <<"\n">> \o Dest6,
     <<"1", "0", ".", "0">>, <<"g", ":", ":">>}

\* Prefixes that are neither a decimal number nor a network mask, or that are
\* one with something around it.
OddPrefixes ==
    {EmptyStr, <<" ">>, <<" ", "\t", " ">>, <<" ", "2", "4">>, <<"a", "b">>,
     <<"1", "x">>, <<"x", "1">>, <<"-", "1">>, <<"+", "5">>, <<"0", "0", "7">>,
     <<"0", "0", "0">>, <<"1", "2", " ">>, <<"a", "b", "c", "d">>, <<"/", "2", "4">>,
     <<"1", ".", "2", ".", "3">>, <<"0", "0", "2", "4">>, <<"2", "4", ".", "0">>,
     <<" ">> \o DottedQuad(255, 255, 0, 0), DottedQuad(255, 255, 0, 0) \o <<" ">>,
     <<"2", "5", "6", ".", "0", ".", "0", ".", "0">>, <<":", ":">>, Dest6,
     <<"9", "9", "9">>, <<"1", "0", "0", "0">>, <<"3", "2", "7", "6", "8">>,
     DottedQuad(255, 255, 255, 0), DottedQuad(255, 255, 254, 0),
     DottedQuad(240, 0, 0, 0), DottedQuad(255, 255, 255, 255)}

RoutePrefixes ==
    {NullPtr}
    \cup {ToDecimal(n) : n \in 0..MaxPrefixValue}
    \cup {DottedQuad(a, b, c, d) : a \in MaskOctets, b \in MaskOctets,
                                   c \in MaskOctets, d \in MaskOctets}
    \cup OddPrefixes

RouteNext ==
    \/ Respond
    \/ /\ call = Idle
       /\ \E channelRef \in ChannelRefs :
              \E destAddr \in RouteDests, prefixLength \in RoutePrefixes,
                 isAdd \in BOOLEAN :
                  \E env \in RouteEnvs(channelRef) :
                      le_net_ChangeRoute(channelRef, destAddr, prefixLength, isAdd, env)

RouteSpec == Init /\ [][RouteNext]_vars

(***************************************************************************)
(* The lease file reader on its own: GetLeaseAddresses() is called for     *)
(* lease files of up to two lines, as le_net_SetDefaultGW() and            *)
(* le_net_GetDefaultGW() call it (routers, one address of each family), as *)
(* le_net_SetDNS() and le_net_GetDNS() call it (domain-name-servers, two   *)
(* addresses), and with an option that is neither.                         *)
(***************************************************************************)
\* The lines a lease file is made of: one without option; the routers option
\* with one address, with no semicolon, behind other text with an address of
\* each family and a space before the semicolon, with a value longer than the
\* address buffer; the domain-name-servers option with two IPv4 addresses,
\* with six addresses of both families of which one fills an IPv4 slot; the
\* routers keyword as the last bytes of the file.
LeaseLine(kind) ==
    CASE kind = "other" ->
             <<"i", "p", " ", "7", ".", "9", " ", "6", ".", "6", " ">> \o Gw4a
             \o <<";", "\n">>
      [] kind = "routers" -> DEFAULT_GW_OPTION \o <<" ">> \o Ch4 \o <<";", "\n">>
      [] kind = "routersBare" -> DEFAULT_GW_OPTION \o <<" ">> \o Gw4a \o <<"\n">>
      [] kind = "routersInner" ->
             <<"o", "p", "t", "i", "o", "n", " ">> \o DEFAULT_GW_OPTION \o <<" ">>
             \o Ch6 \o <<" ">> \o Ch4 \o <<" ", ";", "\n">>
      [] kind = "routersLong" ->
             DEFAULT_GW_OPTION \o <<" ">> \o [i \in 1..130 |-> "7"] \o <<";", "\n">>
      [] kind = "dns" ->
             DNS_ADDRESS_OPTION \o <<" ">> \o Dns4a \o <<" ">> \o Dns4b \o <<";", "\n">>
      [] kind = "dnsMixed" ->
             DNS_ADDRESS_OPTION \o <<" ">> \o Dns6a \o <<" ">> \o Dns4a \o <<" ", " ">>
             \o Gw6a \o <<" ">> \o Long4 \o <<" ">> \o Dns4b \o <<" ">> \o Ch6
             \o <<";", "\n">>
      [] kind = "routersEof" -> DEFAULT_GW_OPTION

LeaseLineKinds ==
    {"other", "routers", "routersBare", "routersInner", "routersLong", "dns",
     "dnsMixed", "routersEof"}

\* line[] is an automatic array without initializer: what it may hold besides
\* zeroes when the function is entered, here the text of an earlier call.
UsedLine ==
    [i \in 1..LEASE_FILE_MAX_LINE_LENGTH_BYTES |->
        IF i <= Len(LeaseLine("dns")) THEN LeaseLine("dns")[i] ELSE NUL]

\* The lease files read: no path, no file, an empty file, files of one and of two
\* lines; only the last line of a file goes without newline.  The file of the
\* bare keyword is also read with line[] not zeroed.
LeaseFiles ==
    {MkLease("LE_FAULT", "LE_OK", << >>), MkLease("LE_OK", "LE_NOT_FOUND", << >>),
     MkLease("LE_OK", "LE_OK", << >>),
     [MkLease("LE_OK", "LE_OK", LeaseLine("routersEof")) EXCEPT !.line = UsedLine]}
    \cup {MkLease("LE_OK", "LE_OK", LeaseLine(k)) : k \in LeaseLineKinds}
    \cup {MkLease("LE_OK", "LE_OK", LeaseLine(k1) \o LeaseLine(k2)) :
              k1 \in LeaseLineKinds \ {"routersEof"}, k2 \in LeaseLineKinds}

\* GetLeaseAddresses() returns: the entry GetDhcpLeaseFileEntry() left in
\* addressBuffer, the address arrays, the result.
ReadLeaseAddresses(lease, infoType, numAddresses) ==
    LET got == GetLeaseAddresses(lease, infoType, PA_DCS_IPV4_ADDR_MAX_BYTES,
                                 PA_DCS_IPV6_ADDR_MAX_BYTES, numAddresses)
    IN  /\ call = Idle
        /\ call' = [api |-> "GetLeaseAddresses", lease |-> lease,
                    infoType |-> infoType, numAddresses |-> numAddresses]
        /\ result' = got.result
        /\ queried' = GetDhcpLeaseFileEntry(
                          lease, infoType,
                          MAX_NUM_DNS_ADDRESS_BY_TYPE
                          * (PA_DCS_IPV4_ADDR_MAX_BYTES + PA_DCS_IPV6_ADDR_MAX_BYTES + 1))
        /\ addrOut' = [written |-> "yes", v4 |-> got.v4, v6 |-> got.v6]
        /\ netCalls' = << >>
        /\ paCalls' = << >>
        /\ warned' = {}
        /\ UNCHANGED <<DnsBackup, dnsInstalled>>
        /\ UNCHANGED gwVars

LeaseNext ==
    \/ Respond
    \/ \E lease \in LeaseFiles :
        \/ ReadLeaseAddresses(lease, "LE_NET_DEFAULT_GATEWAY_ADDRESS",
                              MAX_NUM_DEFAULT_GATEWAY_ADDRESS_BY_TYPE)
        \/ ReadLeaseAddresses(lease, "LE_NET_DNS_SERVER_ADDRESS",
                              MAX_NUM_DNS_ADDRESS_BY_TYPE)
        \/ ReadLeaseAddresses(lease, "other", MAX_NUM_DEFAULT_GATEWAY_ADDRESS_BY_TYPE)

LeaseSpec == Init /\ [][LeaseNext]_vars

(***************************************************************************)
(* Clients that each back up, set and restore, over an adapter whose set   *)
(* calls succeed and whose get call reports the gateways last programmed.  *)
(* At the start the system has an IPv4 default gateway and no IPv6 one.    *)
(***************************************************************************)
SystemAtStart ==
    [tracked |-> TRUE, v4 |-> [gw |-> Gw4a, intf |-> IntfU],
     v6 |-> [gw |-> EmptyStr, intf |-> EmptyStr]]

RoundTripInit == Constructed /\ systemGw = SystemAtStart

\* Each session backs up once, sets once after its backup and restores after
\* its set, in any order among the sessions.
RoundTripNext ==
    \/ Respond
    \/ \E sessionRef \in SessionRefs :
        \/ /\ lastBackupOrSet[sessionRef] = "none"
           /\ le_net_BackupDefaultGW(sessionRef, PaReport(systemGw))
        \/ /\ HoldsBackup(DcsDefaultGwConfigDbList, sessionRef)
           /\ lastBackupOrSet[sessionRef] = "backup"
           /\ \E channelRef \in ChannelRefs :
                  \E env \in SetDefaultGwEnvs(channelRef) :
                      /\ le_net_SetDefaultGW(sessionRef, channelRef, env)
                      /\ \A i \in 1..Len(paCalls') : paCalls'[i].ret = "LE_OK"
        \/ /\ HoldsBackup(DcsDefaultGwConfigDbList, sessionRef)
           /\ lastBackupOrSet[sessionRef] = "set"
           /\ \E v4PaResult \in RestoreResults(sessionRef, FALSE),
                 v6PaResult \in RestoreResults(sessionRef, TRUE) :
                  /\ le_net_RestoreDefaultGW(sessionRef, v4PaResult, v6PaResult)
                  /\ \A i \in 1..Len(paCalls') : paCalls'[i].ret = "LE_OK"

RoundTripSpec == RoundTripInit /\ [][RoundTripNext]_vars

\* Clients that back up whenever they hold no backup, set once after the backup
\* and restore after the set, of which only the one that backed up last restores.
NestedNext ==
    \/ Respond
    \/ \E sessionRef \in SessionRefs :
        \/ /\ ~HoldsBackup(DcsDefaultGwConfigDbList, sessionRef)
           /\ le_net_BackupDefaultGW(sessionRef, PaReport(systemGw))
        \/ /\ HoldsBackup(DcsDefaultGwConfigDbList, sessionRef)
           /\ lastBackupOrSet[sessionRef] = "backup"
           /\ \E channelRef \in ChannelRefs :
                  \E env \in SetDefaultGwEnvs(channelRef) :
                      /\ le_net_SetDefaultGW(sessionRef, channelRef, env)
                      /\ \A i \in 1..Len(paCalls') : paCalls'[i].ret = "LE_OK"
        \/ /\ HoldsBackup(DcsDefaultGwConfigDbList, sessionRef)
           /\ lastBackupOrSet[sessionRef] = "set"
           /\ Head(backupOrder) = sessionRef
           /\ \E v4PaResult \in RestoreResults(sessionRef, FALSE),
                 v6PaResult \in RestoreResults(sessionRef, TRUE) :
                  /\ le_net_RestoreDefaultGW(sessionRef, v4PaResult, v6PaResult)
                  /\ \A i \in 1..Len(paCalls') : paCalls'[i].ret = "LE_OK"

NestedSpec == RoundTripInit /\ [][NestedNext]_vars

(***************************************************************************)
(* Properties of the DNS and route functions.                              *)
(***************************************************************************)
\* The step in which the function named api runs.
Calls(api) == call = Idle /\ call'.api = api

\* The address query of the call answered LE_OK and gave no gateway address.
NoGwAddress(asked) ==
    /\ asked.result = "LE_OK"
    /\ Len(asked.v4GwAddr) = 0
    /\ Len(asked.v6GwAddr) = 0

\* The address query of the call answered LE_OK and gave no DNS address.
NoDnsAddress(asked) ==
    /\ asked.result = "LE_OK"
    /\ \A i \in 1..2 : Len(asked.v4[i]) = 0 /\ Len(asked.v6[i]) = 0

\* C11: when the channel yields no address at all (both gateway addresses empty
\* for le_net_SetDefaultGW, all four DNS addresses empty for le_net_SetDNS), the
\* function returns LE_FAULT, makes no adapter set call and leaves the gateway
\* stack, the flags of its backups included, and the DNS record as they were.
NoAddressIsFault ==
    [][/\ Calls("le_net_SetDefaultGW") /\ NoGwAddress(queried')
           => /\ result' = "LE_FAULT"
              /\ paCalls' = << >>
              /\ netCalls' = << >>
              /\ DcsDefaultGwConfigDbList' = DcsDefaultGwConfigDbList
              /\ DnsBackup' = DnsBackup
       /\ Calls("le_net_SetDNS") /\ NoDnsAddress(queried')
           => /\ result' = "LE_FAULT"
              /\ paCalls' = << >>
              /\ netCalls' = << >>
              /\ DcsDefaultGwConfigDbList' = DcsDefaultGwConfigDbList
              /\ DnsBackup' = DnsBackup]_vars

\* C11 happens: le_net_SetDNS() found no DNS address for a channel while a backup
\* with a flag set is on the stack and DNS addresses of both families are on
\* record.
NoDnsAddressFound ==
    /\ call.api = "le_net_SetDNS"
    /\ NoDnsAddress(queried)
    /\ result = "LE_FAULT"
    /\ \E i \in 1..Len(DcsDefaultGwConfigDbList) :
           DcsDefaultGwConfigDbList[i].setV4GwToSystem
    /\ DnsBackup.newDnsIPv4 # NoDns
    /\ DnsBackup.newDnsIPv6 # NoDns

\* The call that returns gave res and did no more: no adapter call, the gateway
\* stack and the DNS record as before.
OnlyReturns(res) ==
    /\ result' = res
    /\ paCalls' = << >>
    /\ netCalls' = << >>
    /\ DcsDefaultGwConfigDbList' = DcsDefaultGwConfigDbList
    /\ DnsBackup' = DnsBackup

\* The step in which the function named api runs for the channel.
CallsFor(api, channelRef) == Calls(api) /\ call'.channelRef = channelRef

SomeRet(calls, ret) == \E i \in 1..Len(calls) : calls[i].ret = ret

DnsSlots(backup, isIpv6) == IF isIpv6 THEN backup.newDnsIPv6 ELSE backup.newDnsIPv4

\* The pa_dcs_SetDnsNameServers() calls among calls that were made for the family
\* and returned LE_OK.
InstalledOk(calls, isIpv6) ==
    SelectSeq(calls, LAMBDA c : /\ c.fn = "pa_dcs_SetDnsNameServers"
                                /\ c.isIpv6 = isIpv6
                                /\ c.ret = "LE_OK")

\* C14: the slots of a family in the DNS record change only when the
\* pa_dcs_SetDnsNameServers() call for that family returns LE_OK, and then both
\* slots equal the two addresses passed to the adapter; on LE_DUPLICATE or on
\* an error the slots of the family stay as they are, and the call for one
\* family never touches the slots of the other.
DnsSlotsFollowInstall ==
    [][\A isIpv6 \in BOOLEAN :
           IF Calls("le_net_SetDNS") /\ InstalledOk(netCalls', isIpv6) # << >>
           THEN DnsSlots(DnsBackup', isIpv6)
                    = <<InstalledOk(netCalls', isIpv6)[1].dns1Addr,
                        InstalledOk(netCalls', isIpv6)[1].dns2Addr>>
           ELSE DnsSlots(DnsBackup', isIpv6) = DnsSlots(DnsBackup, isIpv6)]_vars

\* C15: le_net_RestoreDNS() hands the adapter the DNS record, which holds for
\* each family the addresses of the latest successful DNS install, whoever made
\* it, and does not change the record: a second le_net_RestoreDNS() hands over
\* the same record.
RestoreHandsLatestInstall ==
    [][Calls("le_net_RestoreDNS")
           => /\ netCalls' = <<PaRestoreDnsCall(DnsBackup)>>
              /\ DnsBackup.newDnsIPv4 = dnsInstalled.v4
              /\ DnsBackup.newDnsIPv6 = dnsInstalled.v6
              /\ DnsBackup' = DnsBackup]_vars

\* The destination is a string that is, behind its leading white space, an IPv4
\* or an IPv6 address.
ValidDest(destAddr) ==
    /\ destAddr # NullPtr
    /\ \/ InetPton4(StripLeadingSpace(destAddr))
       \/ InetPton6(StripLeadingSpace(destAddr))

\* The registry resolves the reference.
Resolved(channelRef) == le_dcs_GetChannelDbFromRef(channelRef) # NoChannelDb

\* The registry resolves the reference to a channel of a technology between
\* LE_DCS_TECH_UNKNOWN and LE_DCS_TECH_MAX.
Supported(channelRef) ==
    /\ Resolved(channelRef)
    /\ TechOrdinal[le_dcs_GetChannelDbFromRef(channelRef).technology]
           > TechOrdinal.LE_DCS_TECH_UNKNOWN
    /\ TechOrdinal[le_dcs_GetChannelDbFromRef(channelRef).technology]
           < TechOrdinal.LE_DCS_TECH_MAX

\* C16 as stated: le_net_ChangeRoute() with an invalid destination (NULL, or
\* neither an IPv4 nor an IPv6 address behind its leading white space) returns
\* LE_BAD_PARAMETER and does not call pa_dcs_ChangeRoute(), whatever the channel.
InvalidDestIsBadParameter ==
    call.api = "le_net_ChangeRoute" /\ ~ValidDest(call.destAddr)
        => result = "LE_BAD_PARAMETER" /\ netCalls = << >>

\* C16 amended: le_net_ChangeRoute() with an invalid destination does not call
\* pa_dcs_ChangeRoute(), whatever the channel, and returns LE_BAD_PARAMETER for
\* a channel of a supported technology; it returns LE_FAULT for a reference
\* that is not resolved and LE_UNSUPPORTED for a technology that is not
\* supported, as the channel is looked at first.
InvalidDestNeverRouted ==
    call.api = "le_net_ChangeRoute" /\ ~ValidDest(call.destAddr)
        => /\ netCalls = << >>
           /\ result = (IF ~Resolved(call.channelRef) THEN "LE_FAULT"
                        ELSE IF ~Supported(call.channelRef) THEN "LE_UNSUPPORTED"
                        ELSE "LE_BAD_PARAMETER")

\* C16 happens: a destination that is no address was refused on a channel of a
\* supported technology, with a prefix that is valid.
InvalidDestRefused ==
    /\ call.api = "le_net_ChangeRoute"
    /\ call.channelRef = "chWifi"
    /\ call.destAddr = <<"g", ":", ":">>
    /\ call.prefixLength = <<"2", "4">>
    /\ result = "LE_BAD_PARAMETER"
    /\ netCalls = << >>


\* The prefix is a string that is, behind its leading white space, not empty
\* and not a string of decimal digits.
NonDecimal(prefixLength) ==
    /\ prefixLength # NullPtr
    /\ StripLeadingSpace(prefixLength) # EmptyStr
    /\ \E i \in 1..Len(StripLeadingSpace(prefixLength)) :
           ~IsDigit(StripLeadingSpace(prefixLength)[i])

\* The destination is an IPv4 address and the prefix is an IPv4 address too,
\* which is a subnet mask in the notation of older callers.
LegacyNetmask(destAddr, prefixLength) ==
    /\ InetPton4(StripLeadingSpace(destAddr))
    /\ InetPton4(StripLeadingSpace(prefixLength))

\* C17: le_net_ChangeRoute() on a channel of a supported technology and with a
\* valid destination returns LE_BAD_PARAMETER and does not call
\* pa_dcs_ChangeRoute() when the prefix has, behind its leading white space,
\* a character that is no decimal digit, unless the destination is an IPv4
\* address and the prefix is an IPv4 subnet mask.
NonDecimalPrefixRefused ==
    /\ call.api = "le_net_ChangeRoute"
    /\ Supported(call.channelRef)
    /\ ValidDest(call.destAddr)
    /\ NonDecimal(call.prefixLength)
    /\ ~LegacyNetmask(call.destAddr, call.prefixLength)
    => result = "LE_BAD_PARAMETER" /\ netCalls = << >>


\* The prefix inputs that stand for no prefix: absent, empty, white space only
\* and "0".
NoPrefixInputs == {NullPtr, EmptyStr, <<" ">>, <<" ", "\t", " ">>, <<"0">>}

\* The single adapter call of the step was made with the stripped destination
\* and the prefix given.
RoutedWith(prefixLength) ==
    /\ Len(netCalls) = 1
    /\ netCalls[1].fn = "pa_dcs_ChangeRoute"
    /\ netCalls[1].destAddr = StripLeadingSpace(call.destAddr)
    /\ netCalls[1].prefixLength = prefixLength
    /\ result = netCalls[1].ret

\* C18: le_net_ChangeRoute() on a channel of a supported technology, with a
\* valid destination of either family and a prefix that is absent, empty,
\* white space only or "0", does not refuse the prefix, and the adapter call it
\* makes once the interface is known carries the empty prefix.
NoPrefixIsEmptyPrefix ==
    /\ call.api = "le_net_ChangeRoute"
    /\ Supported(call.channelRef)
    /\ ValidDest(call.destAddr)
    /\ call.prefixLength \in NoPrefixInputs
    => \/ RoutedWith(EmptyStr)
       \/ netCalls = << >> /\ result = "LE_FAULT" /\ warned = {}

\* C18 happens: the adapter got the empty prefix for an IPv6 destination given
\* with the prefix "0".
ZeroPrefixRouted ==
    /\ call.api = "le_net_ChangeRoute"
    /\ call.destAddr = Dest6
    /\ call.prefixLength = <<"0">>
    /\ RoutedWith(EmptyStr)
    /\ result = "LE_OK"


\* The octets of the network masks looked at.
MaskOctetsSeen == MaskOctets \cup {240, 254}

\* The number of bits that are set in an octet.
OctetOnes(octet) == Cardinality({k \in 0..7 : (octet \div (2 ^ k)) % 2 = 1})

\* The network masks looked at, each with the number of its set bits.
MaskTable ==
    {[mask |-> DottedQuad(a, b, c, d),
      ones |-> OctetOnes(a) + OctetOnes(b) + OctetOnes(c) + OctetOnes(d)] :
        a \in MaskOctetsSeen, b \in MaskOctetsSeen,
        c \in MaskOctetsSeen, d \in MaskOctetsSeen}

\* The step either called the adapter with the number as prefix, in decimal,
\* having logged that a mask is deprecated, or failed on the interface.
RoutedAsCount(ones) ==
    \/ RoutedWith(ToDecimal(ones)) /\ "deprecated" \in warned
    \/ netCalls = << >> /\ result = "LE_FAULT"

\* C19: le_net_ChangeRoute() on a channel of a supported technology, with an
\* IPv4 destination and a prefix that is a dotted-quad network mask, hands the
\* adapter the decimal number of the bits set in the mask as the prefix, for
\* every mask.
MaskBecomesBitCount ==
    /\ call.api = "le_net_ChangeRoute"
    /\ Supported(call.channelRef)
    /\ call.destAddr # NullPtr
    /\ InetPton4(StripLeadingSpace(call.destAddr))
    /\ call.prefixLength # NullPtr
    => \A m \in MaskTable :
           call.prefixLength = m.mask => RoutedAsCount(m.ones)

\* C19 happens: the mask 255.255.254.0, whose bits are 23, and the mask
\* 1.0.128.1, whose bits are not a run of leading ones, reached the adapter.
MaskRoutedAsCount ==
    /\ call.api = "le_net_ChangeRoute"
    /\ call.destAddr = Dest4
    /\ \/ call.prefixLength = DottedQuad(255, 255, 254, 0) /\ RoutedWith(<<"2", "3">>)
       \/ call.prefixLength = DottedQuad(1, 0, 128, 1) /\ RoutedWith(<<"3">>)
    /\ result = "LE_OK"


\* The decimal numbers looked at as prefixes, each with its digits.
DecimalTable == {[str |-> ToDecimal(n), n |-> n] : n \in 1..MaxPrefixValue}

\* C20: le_net_ChangeRoute() on a channel of a supported technology, with a
\* valid destination of either family and a decimal number as prefix, returns
\* LE_BAD_PARAMETER without an adapter call when the number is greater than
\* 128, and for a number in 1..128 hands the adapter the prefix string as it
\* is, a number in 33..128 with an IPv4 destination too.
DecimalPrefixRange ==
    /\ call.api = "le_net_ChangeRoute"
    /\ Supported(call.channelRef)
    /\ ValidDest(call.destAddr)
    /\ call.prefixLength # NullPtr
    => \A d \in DecimalTable :
           call.prefixLength = d.str
               => IF d.n > 128
                  THEN result = "LE_BAD_PARAMETER" /\ netCalls = << >>
                  ELSE \/ RoutedWith(d.str) /\ warned = {}
                       \/ netCalls = << >> /\ result = "LE_FAULT"

\* C20 happens: the prefix "128" reached the adapter with an IPv4 destination.
WidePrefixRouted ==
    /\ call.api = "le_net_ChangeRoute"
    /\ call.destAddr = Dest4
    /\ call.prefixLength = <<"1", "2", "8">>
    /\ RoutedWith(<<"1", "2", "8">>)
    /\ result = "LE_OK"


(***************************************************************************)
(* Properties of the get functions and of the lease file reader.           *)
(***************************************************************************)
\* The last call was a get function that did not come to read the lease file
\* (NULL structure, channel not resolved, no interface) or did not read the
\* option from it.
GetFailed ==
    \/ call.addr = "NULL"
    \/ queried = NoQuery
    \/ queried.result # "LE_OK"

\* C21: le_net_GetDefaultGW() and le_net_GetDNS() return LE_OK when the lease
\* file was read and LE_FAULT for every failure: a NULL structure, a channel
\* that is not resolved, an interface that is not obtained, a lease file
\* lookup that did not succeed.  They return no other code.
GetResultCodes ==
    call.api \in {"le_net_GetDefaultGW", "le_net_GetDNS"}
        => result = (IF GetFailed THEN "LE_FAULT" ELSE "LE_OK")


\* What le_dcsTech_GetDefaultGWAddress() answers in the environment.
ProviderGwAnswer(env) ==
    [result |-> env.techResult, v4GwAddr |-> env.techV4, v6GwAddr |-> env.techV6]

\* What the routers option of the interface's lease file gives in the
\* environment.
LeaseFileGwAnswer(env) ==
    LET got == GetLeaseAddresses(LeaseFile(env.lease), "LE_NET_DEFAULT_GATEWAY_ADDRESS",
                                 PA_DCS_IPV4_ADDR_MAX_BYTES, PA_DCS_IPV6_ADDR_MAX_BYTES, 1)
    IN  [result |-> got.result,
         v4GwAddr |-> IF got.result = "LE_OK" THEN got.v4[1] ELSE EmptyStr,
         v6GwAddr |-> IF got.result = "LE_OK" THEN got.v6[1] ELSE EmptyStr]

\* C22: a le_net_SetDefaultGW() call that comes to query the gateway addresses
\* takes them from the technology provider exactly when the channel is
\* cellular and from the routers option of the interface's DHCP lease file for
\* every other supported technology: what it goes on with is the answer of
\* that one source.
GwSourceByTechnology ==
    [][Calls("le_net_SetDefaultGW") /\ queried' # NoQuery
       => \A sessionRef \in SessionRefs, channelRef \in ChannelRefs :
              \A env \in SetDefaultGwEnvs(channelRef) :
                  le_net_SetDefaultGW(sessionRef, channelRef, env)
                      => queried' =
                             (IF le_dcs_GetChannelDbFromRef(channelRef).technology
                                     = "LE_DCS_TECH_CELLULAR"
                              THEN ProviderGwAnswer(env)
                              ELSE LeaseFileGwAnswer(env))]_vars

\* C22 happens: a set on the Wi-Fi channel installed the two routers of the
\* interface's lease file.
LeaseGatewaysSet ==
    /\ call.api = "le_net_SetDefaultGW"
    /\ queried # NoQuery
    /\ queried.v4GwAddr = Ch4 /\ queried.v6GwAddr = Ch6
    /\ Len(paCalls) = 2
    /\ paCalls[1].interface = IntfW /\ paCalls[1].gatewayAddr = Ch6
    /\ paCalls[2].interface = IntfW /\ paCalls[2].gatewayAddr = Ch4
    /\ result = "LE_OK"


\* The backups of the sessions other than s, in the order of the stack.
OthersOf(list, s) == SelectSeq(list, LAMBDA db : db.appSessionRef # s)

\* C23: le_net_BackupDefaultGW() returns nothing to its caller and always
\* leaves a backup of the calling session at the head of the stack, whose two
\* addresses and two interfaces are those pa_dcs_GetDefaultGateway() reported
\* (empty for a family without gateway); the backups of the other sessions
\* keep their order.
BackupStacksReport ==
    [][\A sessionRef \in SessionRefs, report \in SystemGwReports :
           le_net_BackupDefaultGW(sessionRef, report)
               => /\ result' = "void"
                  /\ DcsDefaultGwConfigDbList' # << >>
                  /\ Head(DcsDefaultGwConfigDbList').appSessionRef = sessionRef
                  /\ Archived(Head(DcsDefaultGwConfigDbList')) = Archived(report)
                  /\ OthersOf(DcsDefaultGwConfigDbList', sessionRef)
                         = OthersOf(DcsDefaultGwConfigDbList, sessionRef)
                  /\ Len(DcsDefaultGwConfigDbList')
                         = Len(OthersOf(DcsDefaultGwConfigDbList, sessionRef)) + 1]_vars

\* C23 happens: session 1 backed up a system without IPv6 gateway while the
\* two other sessions hold backups, session 2 above session 0.
BackedUpOverTwoOthers ==
    /\ call.api = "le_net_BackupDefaultGW"
    /\ call.sessionRef = 1
    /\ Len(DcsDefaultGwConfigDbList) = 3
    /\ DcsDefaultGwConfigDbList[1].appSessionRef = 1
    /\ DcsDefaultGwConfigDbList[1].defaultV4GW = Gw4a
    /\ DcsDefaultGwConfigDbList[1].defaultV6GW = EmptyStr
    /\ DcsDefaultGwConfigDbList[2].appSessionRef = 2
    /\ DcsDefaultGwConfigDbList[3].appSessionRef = 0


\* The sessions that backed up and have not restored since.
Holders == {s \in SessionRefs : backedUp[s] # NoBackup}

OptionKey(infoType) ==
    IF infoType = "LE_NET_DNS_SERVER_ADDRESS" THEN DNS_ADDRESS_OPTION ELSE DEFAULT_GW_OPTION

\* Where the first line of the file that holds the key ends: at its newline, or
\* at the end of the file.
KeyLineEnd(bytes, key) ==
    IF IndexFrom(bytes, "\n", StrStr(bytes, key)) = 0 THEN Len(bytes)
    ELSE IndexFrom(bytes, "\n", StrStr(bytes, key))

\* The text of that line from one byte past the key to the end of the line.
KeyLineValue(bytes, key) ==
    SubSeq(bytes, StrStr(bytes, key) + Len(key) + 1, KeyLineEnd(bytes, key))

\* The size of addressBuffer.
AddressBufferBytes ==
    MAX_NUM_DNS_ADDRESS_BY_TYPE * (PA_DCS_IPV4_ADDR_MAX_BYTES + PA_DCS_IPV6_ADDR_MAX_BYTES + 1)

\* The result the lease file reader is to give for a lease file and an option.
EntryResultFor(lease, infoType) ==
    IF lease.pathResult # "LE_OK" THEN "LE_FAULT"
    ELSE IF infoType \notin {"LE_NET_DNS_SERVER_ADDRESS", "LE_NET_DEFAULT_GATEWAY_ADDRESS"}
    THEN "LE_FAULT"
    ELSE IF lease.openResult = "LE_NOT_FOUND" THEN "LE_NOT_FOUND"
    ELSE IF StrStr(lease.bytes, OptionKey(infoType)) = 0 THEN "LE_NOT_FOUND"
    ELSE IF Len(KeyLineValue(lease.bytes, OptionKey(infoType))) >= AddressBufferBytes
    THEN "LE_OVERFLOW"
    ELSE "LE_OK"

\* C25: GetDhcpLeaseFileEntry() returns LE_FAULT when the path of the lease
\* file is not resolved or the option is unknown, LE_NOT_FOUND when the file
\* does not exist or none of its lines holds the keyword of the option,
\* LE_OVERFLOW when the value is longer than the buffer, and LE_OK only when a
\* line with the keyword was found and its value copied.
LeaseEntryResultCodes ==
    call.api = "GetLeaseAddresses"
        => queried.result = EntryResultFor(call.lease, call.infoType)


\* The family and the address of each adapter call, in the order of the calls.
FamiliesSet(calls) ==
    [i \in 1..Len(calls) |-> <<calls[i].isIpv6, calls[i].gatewayAddr>>]

\* The calls le_net_SetDefaultGW() is to make for the addresses it got: IPv6
\* first, then IPv4, each for an address that is not empty.
FamiliesToSet(asked) ==
    (IF Len(asked.v6GwAddr) > 0 THEN <<<<TRUE, asked.v6GwAddr>>>> ELSE << >>)
    \o (IF Len(asked.v4GwAddr) > 0 THEN <<<<FALSE, asked.v4GwAddr>>>> ELSE << >>)

\* C26: le_net_SetDefaultGW() calls pa_dcs_SetDefaultGateway() for IPv6 first
\* and for IPv4 second, for each family it got an address for, the IPv4 call
\* whatever the IPv6 call returned, and it returns LE_OK exactly when one of
\* the calls it made returned LE_OK.
SetTriesEachFamily ==
    call.api = "le_net_SetDefaultGW"
        => /\ (result = "LE_OK") <=> SomeRet(paCalls, "LE_OK")
           /\ FamiliesSet(paCalls) =
                  (IF queried # NoQuery /\ queried.result = "LE_OK"
                   THEN FamiliesToSet(queried) ELSE << >>)

\* C26 happens: the IPv6 call failed, the IPv4 call was made after it and
\* succeeded, and le_net_SetDefaultGW() returned LE_OK.
SetV4AfterFailedV6 ==
    /\ call.api = "le_net_SetDefaultGW"
    /\ Len(paCalls) = 2
    /\ paCalls[1].isIpv6 /\ paCalls[1].ret = "LE_FAULT"
    /\ ~paCalls[2].isIpv6 /\ paCalls[2].ret = "LE_OK"
    /\ result = "LE_OK"


\* What a set by session s may make of a backup: none but the session's own
\* changes, and of that only a flag, which becomes true when the adapter call
\* for its family returned LE_OK and stays as it was otherwise.
SetLeaves(s, before, after, calls) ==
    IF before.appSessionRef # s THEN after = before
    ELSE after = [before EXCEPT
                      !.setV4GwToSystem = @ \/ PaSetOk(calls, FALSE),
                      !.setV6GwToSystem = @ \/ PaSetOk(calls, TRUE)]

\* C27: le_net_SetDefaultGW() by a session changes the stack only by setting
\* the flag of a family in the session's own backup, and only when the adapter
\* call for that family returned LE_OK: it clears no flag, changes no archived
\* address or interface, keeps the order of the stack and leaves the backups
\* of the other sessions as they are.
SetOnlyMarksOwnBackup ==
    [][\A s \in SessionRefs :
           Sets(s) =>
               /\ Len(DcsDefaultGwConfigDbList') = Len(DcsDefaultGwConfigDbList)
               /\ \A i \in 1..Len(DcsDefaultGwConfigDbList) :
                      SetLeaves(s, DcsDefaultGwConfigDbList[i],
                                DcsDefaultGwConfigDbList'[i], paCalls')]_vars

\* C27 happens: session 1, whose backup is second of three, set gateways of
\* both families; the IPv6 call failed and the IPv4 call succeeded, and only
\* the IPv4 flag of its backup is set, while the head's flags are not.
SetMarkedSecondOfThree ==
    /\ call.api = "le_net_SetDefaultGW"
    /\ call.sessionRef = 1
    /\ Len(DcsDefaultGwConfigDbList) = 3
    /\ DcsDefaultGwConfigDbList[2].appSessionRef = 1
    /\ DcsDefaultGwConfigDbList[2].setV4GwToSystem
    /\ ~DcsDefaultGwConfigDbList[2].setV6GwToSystem
    /\ ~DcsDefaultGwConfigDbList[1].setV4GwToSystem
    /\ Len(paCalls) = 2
    /\ paCalls[1].ret = "LE_FAULT" /\ paCalls[2].ret = "LE_OK"


\* The session holds a backup and it is not at the head of the stack.
BackupNotAtHead(s) ==
    /\ HoldsBackup(DcsDefaultGwConfigDbList, s)
    /\ DcsDefaultGwConfigDbList[1].appSessionRef # s

\* Another session backed up after the latest backup of the session, which has
\* not restored since, and has not restored since either.
NewerBackupOfOther(s) ==
    \E i, j \in 1..Len(backupOrder) :
        /\ backupOrder[j] = s
        /\ i < j
        /\ backupOrder[i] # s

\* le_net_SetDefaultGW() came to look for the backup of the session: the address
\* query answered LE_OK with a gateway address.
SetLookedUp ==
    /\ queried'.result = "LE_OK"
    /\ (Len(queried'.v4GwAddr) > 0 \/ Len(queried'.v6GwAddr) > 0)

\* C28 as the specification states it: le_net_RestoreDefaultGW(), and
\* le_net_SetDefaultGW() for a session that holds a backup, log the warning
\* exactly when the backup of the session is not at the head of the stack, that
\* is exactly when another session backed up later and has not restored.
WarnsWhenNotAtHead ==
    [][\A s \in SessionRefs :
           /\ Restores(s) =>
                  /\ ("not in reversed order" \in warned') <=> BackupNotAtHead(s)
                  /\ ("not in reversed order" \in warned') <=> NewerBackupOfOther(s)
           /\ Sets(s) /\ HoldsBackup(DcsDefaultGwConfigDbList, s) =>
                  /\ ("newer backup" \in warned') <=> BackupNotAtHead(s)
                  /\ ("newer backup" \in warned') <=> NewerBackupOfOther(s)]_vars

\* C28: le_net_RestoreDefaultGW(), and le_net_SetDefaultGW() that got a gateway
\* address to set for a session that holds a backup, log the warning exactly
\* when the backup of the session is not at the head of the stack, that is
\* exactly when another session backed up later and has not restored; a
\* le_net_SetDefaultGW() that returns before it has an address logs none.
WarnsWhenNotAtHeadOnceLookedUp ==
    [][\A s \in SessionRefs :
           /\ Restores(s) =>
                  /\ ("not in reversed order" \in warned') <=> BackupNotAtHead(s)
                  /\ ("not in reversed order" \in warned') <=> NewerBackupOfOther(s)
           /\ Sets(s) /\ HoldsBackup(DcsDefaultGwConfigDbList, s) /\ SetLookedUp =>
                  /\ ("newer backup" \in warned') <=> BackupNotAtHead(s)
                  /\ ("newer backup" \in warned') <=> NewerBackupOfOther(s)
           /\ Sets(s) /\ ~SetLookedUp => warned' = {}]_vars

\* C28 happens: session 1 backed up before session 2 did, neither restored, and
\* session 1 set a gateway: the warning of the newer backup is logged, and its
\* backup is still below the one of session 2.
SetWarnedOfNewerBackup ==
    /\ call.api = "le_net_SetDefaultGW"
    /\ call.sessionRef = 1
    /\ backupOrder = <<2, 1>>
    /\ warned = {"newer backup"}
    /\ Len(paCalls) > 0


\* A text up to its first semicolon, the whole text if it has none.
BeforeSemicolon(text) ==
    IF IndexFrom(text, ";", 1) = 0 THEN text
    ELSE SubSeq(text, 1, IndexFrom(text, ";", 1) - 1)

\* The lease file read holds the keyword of the option asked for.
KeyInLease == StrStr(call.lease.bytes, OptionKey(call.infoType)) # 0

\* C29: when GetDhcpLeaseFileEntry() returns LE_OK for a file that holds the
\* keyword, its output is the text of the first line with the keyword, from one
\* byte past the keyword to the end of that line, cut at the first semicolon if
\* there is one, with the white space before the semicolon kept; a later line
\* with the keyword does not count.
LeaseEntryValue ==
    call.api = "GetLeaseAddresses" /\ queried.result = "LE_OK" /\ KeyInLease
        => queried.dest =
               BeforeSemicolon(KeyLineValue(call.lease.bytes, OptionKey(call.infoType)))


\* Where the tokens of a text start: at each byte that is no space and follows
\* a space or starts the text.
TokenStarts(text) ==
    {i \in 1..Len(text) : text[i] # " " /\ (i = 1 \/ text[i - 1] = " ")}

\* The token that starts at byte i: up to the next space or the end of the text.
TokenAt(text, i) ==
    SubSeq(text, i,
           IF IndexFrom(text, " ", i) = 0 THEN Len(text) ELSE IndexFrom(text, " ", i) - 1)

\* Where the tokens of one family start: IPv6 are those with a colon.
FamilyStarts(text, isIpv6) ==
    {i \in TokenStarts(text) : (\E k \in 1..Len(TokenAt(text, i)) :
                                    TokenAt(text, i)[k] = ":") <=> isIpv6}

\* The output slots of a family for a lease value: slot n holds the bytes of
\* the n-th token of the family, as many as the slot takes, and is empty when
\* the value has fewer tokens of the family.
FamilySlots(text, isIpv6, numAddresses, addrSize) ==
    [n \in 1..numAddresses |->
        IF n > Cardinality(FamilyStarts(text, isIpv6)) THEN EmptyStr
        ELSE Take(TokenAt(text,
                          CHOOSE i \in FamilyStarts(text, isIpv6) :
                              Cardinality({j \in FamilyStarts(text, isIpv6) : j < i})
                                  = n - 1),
                  addrSize)]

\* C30: GetLeaseAddresses() splits the lease value at spaces, takes a token
\* with a colon as IPv6 and any other as IPv4, and fills the slots of each
\* family with the first tokens of that family in their order on the line,
\* one for a gateway and two for DNS, however the families are mixed; further
\* tokens of a family whose slots are full are dropped and the slots left over
\* are empty.
LeaseValueSplitByFamily ==
    call.api = "GetLeaseAddresses" /\ result = "LE_OK"
        => /\ addrOut.v4 = FamilySlots(queried.dest, FALSE, call.numAddresses,
                                       PA_DCS_IPV4_ADDR_MAX_BYTES)
           /\ addrOut.v6 = FamilySlots(queried.dest, TRUE, call.numAddresses,
                                       PA_DCS_IPV6_ADDR_MAX_BYTES)

\* C30 happens: the DNS line with six addresses, IPv6 first and the families
\* mixed, was read: the two first IPv4 tokens and the two first IPv6 tokens are
\* in the slots in their order, the third of each family is in none.
MixedDnsLineSplit ==
    /\ call.api = "GetLeaseAddresses"
    /\ call.infoType = "LE_NET_DNS_SERVER_ADDRESS"
    /\ call.lease.bytes = LeaseLine("dnsMixed")
    /\ result = "LE_OK"
    /\ addrOut.v4 = <<Dns4a, Long4>>
    /\ addrOut.v6 = <<Dns6a, Gw6a>>


(***************************************************************************)
(* Properties of the destructor, of the round trip of backup, set and      *)
(* restore, and of the DNS and lease functions.                            *)
(***************************************************************************)
\* A pointer to a backup whose link is on no list.
OffList(list) == Len(list) + 1

\* The list without its element at position i, the others in their order.
Without(list, i) == SubSeq(list, 1, i - 1) \o SubSeq(list, i + 1, Len(list))

\* The destructor run on each backup of the stack unlinks that backup and no
\* other; run again on it, now unlinked, it leaves the stack as it is.
DestructorUnlinksOnce ==
    \A i \in 1..Len(DcsDefaultGwConfigDbList) :
        LET once == DcsDefaultGwConfigDbDestructor(DcsDefaultGwConfigDbList, i)
        IN  /\ once = Without(DcsDefaultGwConfigDbList, i)
            /\ DcsDefaultGwConfigDbDestructor(once, OffList(once)) = once

RestoreSetsNoEmptyGateway ==
    call.api = "le_net_RestoreDefaultGW"
        => \A i \in 1..Len(paCalls) :
               Len(paCalls[i].gatewayAddr) > 0 /\ Len(paCalls[i].interface) > 0


\* The families that had a default gateway at the start.
FamiliesAtStart == {f \in {"v4", "v6"} : Len(SystemAtStart[f].gw) > 0}

\* C32: with an adapter whose set calls succeed and whose get call reports the
\* gateway last programmed, and clients that back up, set and restore with the
\* restores in last-backed-up-first-restored order, once every backup has been
\* restored the stack is empty and the default gateway of each family that had
\* one before the first backup is that gateway again.
NestedRoundTripRestoresGateway ==
    backupOrder = << >>
        => /\ DcsDefaultGwConfigDbList = << >>
           /\ \A f \in FamiliesAtStart : systemGw[f] = SystemAtStart[f]

\* C32 happens: all three sessions have backed up, set and restored, the last
\* restore programmed the IPv4 gateway of the start again, and no backup is
\* left.
NestedRoundTripDone ==
    /\ call.api = "le_net_RestoreDefaultGW"
    /\ \A s \in SessionRefs : lastBackupOrSet[s] = "set"
    /\ backupOrder = << >>
    /\ DcsDefaultGwConfigDbList = << >>
    /\ \E i \in 1..Len(paCalls) :
           /\ ~paCalls[i].isIpv6
           /\ paCalls[i].gatewayAddr = SystemAtStart.v4.gw
           /\ paCalls[i].interface = SystemAtStart.v4.intf
    /\ systemGw.v4 = SystemAtStart.v4


\* The gateway of a family that a session archived at its latest backup.
ArchivedGw(s, f) ==
    IF f = "v4"
    THEN [gw |-> backedUp[s].defaultV4GW, intf |-> backedUp[s].defaultV4Interface]
    ELSE [gw |-> backedUp[s].defaultV6GW, intf |-> backedUp[s].defaultV6Interface]

DuplicateChangesNoDns ==
    [][Calls("le_net_SetDNS") /\ result' = "LE_DUPLICATE"
           => /\ ~SomeRet(netCalls', "LE_OK")
              /\ DnsBackup' = DnsBackup]_vars


\* The text of the first line of the lease file read that holds the keyword of
\* the option asked for, its newline included.
KeyLine ==
    LET bytes == call.lease.bytes
        key == OptionKey(call.infoType)
        before == {i \in 1..StrStr(bytes, key) : bytes[i] = "\n"}
        start == IF before = {} THEN 1
                 ELSE 1 + CHOOSE i \in before : \A j \in before : j <= i
    IN  SubSeq(bytes, start, KeyLineEnd(bytes, key))

\* The text is part of the line: it is found in it byte for byte.
PartOf(text, lineText) == text = << >> \/ StrStr(lineText, text) # 0

\* C36: the value GetDhcpLeaseFileEntry() returns is text of the line that
\* holds the keyword: the copy starts no further than the terminator of the
\* line just read, also when the keyword ends a line without newline, and no
\* byte that an earlier line or an earlier use left in line[] is returned.
LeaseValueFromKeyLine ==
    call.api = "GetLeaseAddresses" /\ queried.result = "LE_OK" /\ KeyInLease
        => /\ StrStr(KeyLine, OptionKey(call.infoType)) + Len(OptionKey(call.infoType))
                  <= Len(KeyLine)
           /\ PartOf(queried.dest, KeyLine)

=============================================================================
